---- MODULE Spec2Model ----
(***************************************************************************)
(* Whizy-Protocol/indexer: the log decoder (indexer/parser.go) and the     *)
(* per-contract synchronisation loop (indexer/indexer.go), with the        *)
(* storage model of config/db.go.                                          *)
(*                                                                         *)
(* Representation of values:                                               *)
(*   - a byte string ([]byte, common.Hash, a topic) is a sequence of       *)
(*     integers 0..255;                                                    *)
(*   - a big.Int (always non-negative here) is its magnitude: the          *)
(*     big-endian byte sequence without leading zeros, <<>> being 0; a nil *)
(*     config.BigInt is stored as 0 (BigInt.Value) and is <<>> too;        *)
(*   - a uint64 that comes out of big.Int.Uint64() is four 16-bit limbs,   *)
(*     most significant first, so that 64-bit wrap-around is computed      *)
(*     exactly; block numbers, lengths and timestamps are plain integers;  *)
(*   - a Go string made of hexadecimal digits is a TLA+ string; a Go       *)
(*     string cut out of log data is the byte sequence.                    *)
(***************************************************************************)
EXTENDS Integers, Sequences, FiniteSets, TLC

(***************************************************************************)
(* Bounds of the model.                                                    *)
(***************************************************************************)
\* Highest block number of the modelled chain.
MaxHeight == 2
\* Largest configured blockBatchSize explored.
MaxBatch == 2
\* Number of times the process may be killed and started again.
MaxCrashes == 1
\* The longest string payload, in bytes, of the logs given to the decoder alone.
MaxPayload == 2

(***************************************************************************)
(* Bytes, big integers and 64-bit unsigned arithmetic.                     *)
(***************************************************************************)
Zeros(n) == [i \in 1..n |-> 0]

\* Go's s[lo:hi] for in-range integer bounds (0-based, hi exclusive).
Slice(s, lo, hi) == [i \in 1..(hi - lo) |-> s[lo + i]]

RECURSIVE StripZeros(_)
StripZeros(bs) ==
    IF bs = <<>> THEN <<>>
    ELSE IF bs[1] = 0 THEN StripZeros(Tail(bs)) ELSE bs

\* new(big.Int).SetBytes(bs): bs read as a big-endian unsigned integer.
SetBytes(bs) == StripZeros(bs)

RECURSIVE NatBytes(_)
NatBytes(n) == IF n = 0 THEN <<>> ELSE Append(NatBytes(n \div 256), n % 256)

\* new(big.Int).SetUint64(n) for a small n.
SetUint64(n) == NatBytes(n)

\* x.Cmp(big.NewInt(0)) != 0
NonZero(x) == x # <<>>

\* The low 8 bytes of a magnitude, left-padded with zeros.
Low8(bs) ==
    LET n == Len(bs)
    IN  [i \in 1..8 |-> IF n - 8 + i >= 1 THEN bs[n - 8 + i] ELSE 0]

\* x.Uint64(): the low 64 bits of the magnitude (big.Int keeps the low word
\* when the value does not fit), as four 16-bit limbs.
Uint64(x) ==
    LET b == Low8(x)
    IN  << b[1] * 256 + b[2], b[3] * 256 + b[4],
           b[5] * 256 + b[6], b[7] * 256 + b[8] >>

\* x.Int64(): the same 64 bits, read by Go as a two's complement integer.
Int64(x) == Uint64(x)

\* uint64(n) for a small non-negative integer n (a length, a literal).
U64(n) == << 0, 0, n \div 65536, n % 65536 >>

\* Go's a + b on uint64: the sum modulo 2^64.
U64Add(a, b) ==
    LET s4 == a[4] + b[4]
        s3 == a[3] + b[3] + (s4 \div 65536)
        s2 == a[2] + b[2] + (s3 \div 65536)
        s1 == a[1] + b[1] + (s2 \div 65536)
    IN  << s1 % 65536, s2 % 65536, s3 % 65536, s4 % 65536 >>

\* a < b on uint64.
U64Less(a, b) ==
    \E i \in 1..4 : a[i] < b[i] /\ \A j \in 1..(i - 1) : a[j] = b[j]

\* The integer a uint64 stands for, when it is below 2^31.
U64Int(a) == a[3] * 65536 + a[4]

\* Go's run-time check of data[lo:hi] with uint64 bounds: lo <= hi <= cap.
\* The capacity is taken to be the length; every slice expression of the
\* decoder is guarded by a comparison of hi with the length.
SliceInBounds(data, lo, hi) ==
    /\ ~U64Less(hi, lo)
    /\ ~U64Less(U64(Len(data)), hi)

(***************************************************************************)
(* Hexadecimal and decimal formatting.                                     *)
(***************************************************************************)
HexDigit(d) ==
    CASE d = 0 -> "0" [] d = 1 -> "1" [] d = 2 -> "2" [] d = 3 -> "3"
      [] d = 4 -> "4" [] d = 5 -> "5" [] d = 6 -> "6" [] d = 7 -> "7"
      [] d = 8 -> "8" [] d = 9 -> "9" [] d = 10 -> "a" [] d = 11 -> "b"
      [] d = 12 -> "c" [] d = 13 -> "d" [] d = 14 -> "e" [] d = 15 -> "f"

RECURSIVE HexOf(_)
HexOf(bs) ==
    IF bs = <<>> THEN ""
    ELSE HexDigit(bs[1] \div 16) \o HexDigit(bs[1] % 16) \o HexOf(Tail(bs))

\* common.Hash.Hex(): "0x" and 64 lower-case digits.
HashHex(h) == "0x" \o HexOf(h)

\* The EIP-55 letter case of an address: a hex letter is upper-case when the
\* matching digit of the Keccak-256 of the lower-case digits is 8 or more.
\* The hashes are tabulated for the addresses the logs of the model carry;
\* an address without letters is its own checksum.
Checksum(hex) ==
    CASE hex = "0xaaaaaaaaaaaaaaaaaaaaaaaaaaaaaaaaaaaaaaaa" ->
           "0xaAaAaAaaAaAaAaaAaAAAAAAAAaaaAaAaAaaAaaAa"
      [] hex = "0xabababababababababababababababababababab" ->
           "0xABaBaBaBABabABabAbAbABAbABabababaBaBABaB"
      [] hex = "0xbbbbbbbbbbbbbbbbbbbbbbbbbbbbbbbbbbbbbbbb" ->
           "0xbBbBBBBbbBBBbbbBbbBbbbbBBbBbbbbBbBbbBBbB"
      [] hex = "0xcccccccccccccccccccccccccccccccccccccccc" ->
           "0xCcCCccccCCCCcCCCCCCcCcCccCcCCCcCcccccccC"
      [] hex = "0xdddddddddddddddddddddddddddddddddddddddd" ->
           "0xDDdDddDdDdddDDddDDddDDDDdDdDDdDDdDDDDDDd"
      [] hex = "0xeeeeeeeeeeeeeeeeeeeeeeeeeeeeeeeeeeeeeeee" ->
           "0xEeeeeEeeeEeEeeEeEeEeeEEEeeeeEeeeeeeeEEeE"
      [] OTHER -> hex

\* common.BytesToAddress(b).Hex(): the low 20 bytes of b, with the EIP-55
\* letter case.
AddressHex(b) ==
    LET n == Len(b)
        a == IF n >= 20 THEN Slice(b, n - 20, n) ELSE Zeros(20 - n) \o b
    IN  Checksum("0x" \o HexOf(a))

RECURSIVE Itoa(_)
\* fmt's %d of a non-negative integer.
Itoa(n) == IF n < 10 THEN HexDigit(n) ELSE Itoa(n \div 10) \o HexDigit(n % 10)

\* Variant: the identifier is the transaction hash alone.
EntityIDOfTx(txHashHex, index) == txHashHex

\* fmt.Sprintf("%s-%d", txHash, log.Index)
EntityID(txHashHex, index) == txHashHex \o "-" \o Itoa(index)

(***************************************************************************)
(* Configuration (config/config.go): the contracts of networks.json and    *)
(* the batch size of config.yaml.                                          *)
(***************************************************************************)
\* A contract address of the configuration is a Go string, kept as the
\* sequence of its characters so that strings.EqualFold can be computed.
WhizyAddress ==
    << "0", "x", "7", "1", "7", "1", "1", "F", "3", "5", "c", "2", "0", "0",
       "f", "D", "a", "b", "E", "7", "5", "F", "2", "e", "8", "2", "F", "0",
       "1", "4", "6", "c", "3", "5", "f", "3", "2", "e", "B", "A", "A", "5" >>
ProtocolSelectorAddress ==
    << "0", "x", "5", "F", "9", "f", "b", "4", "A", "c", "0", "2", "1", "F",
       "c", "6", "d", "D", "4", "F", "F", "D", "B", "3", "2", "5", "7", "5",
       "4", "5", "6", "5", "1", "a", "c", "1", "3", "2", "6", "5", "1", "C" >>

\* unicode.SimpleFold restricted to the letters of a hexadecimal address.
FoldChar(c) ==
    CASE c = "A" -> "a" [] c = "B" -> "b" [] c = "C" -> "c" [] c = "D" -> "d"
      [] c = "E" -> "e" [] c = "F" -> "f" [] c = "X" -> "x" [] OTHER -> c

\* Variant: the address is compared with ==.
EqualExact(s, t) == s = t

\* strings.EqualFold(s, t)
EqualFold(s, t) ==
    /\ Len(s) = Len(t)
    /\ \A i \in 1..Len(s) : FoldChar(s[i]) = FoldChar(t[i])

(***************************************************************************)
(* Event signatures (parser.go, init): Keccak-256 of the declarations.     *)
(***************************************************************************)
Keccak256Hash(decl) ==
    CASE decl = "BetPlaced(uint256,address,bool,uint256,uint256)" ->
         << 82, 119, 37, 7, 203, 81, 111, 199, 78, 194, 160, 193, 207, 69, 199, 49,
            212, 233, 235, 144, 151, 155, 149, 111, 71, 202, 241, 124, 66, 8, 104, 128 >>
      [] decl = "MarketCreated(uint256,string,uint256,address,address)" ->
         << 148, 145, 118, 51, 210, 80, 131, 51, 140, 244, 249, 202, 211, 159, 106, 133,
            223, 47, 187, 201, 79, 151, 157, 93, 141, 158, 175, 50, 180, 225, 208, 85 >>
      [] decl = "MarketResolved(uint256,bool)" ->
         << 73, 39, 254, 56, 145, 151, 131, 37, 0, 35, 210, 126, 101, 163, 229, 107,
            107, 92, 62, 73, 54, 78, 81, 103, 74, 65, 239, 8, 214, 36, 96, 217 >>
      [] decl = "WinningsClaimed(uint256,address,uint256)" ->
         << 83, 128, 207, 111, 233, 3, 180, 12, 109, 90, 158, 13, 251, 202, 47, 58,
            66, 63, 10, 33, 82, 11, 77, 89, 71, 237, 81, 105, 189, 186, 148, 109 >>
      [] decl = "AutoDepositExecuted(address,address,uint256,bool)" ->
         << 20, 86, 216, 81, 249, 155, 210, 117, 127, 146, 151, 97, 7, 90, 161, 210,
            15, 106, 163, 1, 157, 211, 205, 5, 14, 74, 196, 127, 7, 189, 29, 74 >>
      [] decl = "AutoWithdrawExecuted(address,address,uint256,bool)" ->
         << 12, 69, 205, 107, 170, 144, 197, 84, 127, 66, 242, 161, 69, 64, 121, 154,
            135, 19, 255, 17, 49, 210, 167, 55, 145, 122, 111, 33, 92, 221, 248, 153 >>
      [] decl = "OwnershipTransferred(address,address)" ->
         << 139, 224, 7, 156, 83, 22, 89, 20, 19, 68, 205, 31, 208, 164, 242, 132,
            25, 73, 127, 151, 34, 163, 218, 175, 227, 180, 24, 111, 107, 100, 87, 224 >>
      [] decl = "Paused(address)" ->
         << 98, 231, 140, 234, 1, 190, 227, 32, 205, 78, 66, 2, 112, 181, 234, 116,
            0, 13, 17, 176, 201, 247, 71, 84, 235, 219, 252, 84, 75, 5, 162, 88 >>
      [] decl = "ProtocolRegistered(uint8,address,string,uint8)" ->
         << 95, 210, 177, 246, 157, 34, 113, 89, 11, 233, 226, 118, 68, 68, 236, 246,
            1, 93, 68, 147, 49, 172, 5, 68, 181, 64, 120, 65, 107, 117, 33, 74 >>
      [] decl = "ProtocolUpdated(address,uint256,uint256)" ->
         << 181, 134, 240, 8, 219, 216, 9, 176, 255, 219, 106, 236, 37, 50, 30, 19,
            187, 248, 218, 16, 137, 250, 238, 179, 118, 198, 241, 196, 217, 195, 2, 43 >>
      [] decl = "Unpaused(address)" ->
         << 93, 185, 238, 10, 73, 91, 242, 230, 255, 156, 145, 167, 131, 76, 27, 164,
            253, 210, 68, 165, 232, 170, 78, 83, 123, 211, 138, 234, 228, 176, 115, 170 >>
      [] decl = "Transfer(address,address,uint256)" ->
         << 221, 242, 82, 173, 27, 226, 200, 155, 105, 194, 176, 104, 252, 55, 141, 170,
            149, 43, 167, 241, 99, 196, 161, 22, 40, 245, 90, 77, 245, 35, 179, 239 >>

BetPlacedSignature == Keccak256Hash("BetPlaced(uint256,address,bool,uint256,uint256)")
MarketCreatedSignature == Keccak256Hash("MarketCreated(uint256,string,uint256,address,address)")
MarketResolvedSignature == Keccak256Hash("MarketResolved(uint256,bool)")
WinningsClaimedSignature == Keccak256Hash("WinningsClaimed(uint256,address,uint256)")
AutoDepositExecutedSignature == Keccak256Hash("AutoDepositExecuted(address,address,uint256,bool)")
AutoWithdrawExecutedSignature == Keccak256Hash("AutoWithdrawExecuted(address,address,uint256,bool)")
OwnershipTransferredSignature == Keccak256Hash("OwnershipTransferred(address,address)")
PausedSignature == Keccak256Hash("Paused(address)")
ProtocolRegisteredSignature == Keccak256Hash("ProtocolRegistered(uint8,address,string,uint8)")
ProtocolUpdatedSignature == Keccak256Hash("ProtocolUpdated(address,uint256,uint256)")
UnpausedSignature == Keccak256Hash("Unpaused(address)")
\* A signature of no monitored event.
TransferSignature == Keccak256Hash("Transfer(address,address,uint256)")

(***************************************************************************)
(* State.                                                                  *)
(***************************************************************************)
VARIABLES
    Contracts,       \* config.Contracts: the contracts loaded from networks.json
    WhizyPredictionMarketContract,  \* config.WhizyPredictionMarketContract
    ProtocolSelectorContract,       \* config.ProtocolSelectorContract
    BlockBatchSize,  \* cfg.BlockBatchSize
    proc,            \* "down", or "up" once the process runs
    cancelled,       \* ctx is done or the Shutdown channel is closed
    sync_states,     \* table sync_states: contract_address -> SyncState row
    tables,          \* one table per entity kind: the set of its rows
    unit,            \* per contract name: the locals of its indexContract goroutine
    rpcClient,       \* "none", "open" once dialed, "closed" once the deferred Close has run
    RPCEndpoint,     \* the transport of cfg.RPCEndpoint: "http" or "ws"
    kills,           \* how often the process has been killed
    hist,            \* per contract name: what the unit did last (observation only)
    plog,            \* decoder alone: the log handed to ParseLog
    paddr,           \* decoder alone: the contract address handed to ParseLog
    pres             \* decoder alone: what ParseLog returned

\* The package variables of config that LoadNetworks assigns by name.
named == << WhizyPredictionMarketContract, ProtocolSelectorContract >>

vars == << Contracts, named, BlockBatchSize, proc, cancelled, sync_states, tables,
           unit, rpcClient, RPCEndpoint, kills, hist, plog, paddr, pres >>

\* The zero value of config.Contract.
NoContract == [Name |-> "", Address |-> <<>>, StartBlock |-> 0]

\* The contract of config.Contracts with the name (the one handed to the
\* name's goroutine), or the zero value when the network does not list it.
ContractNamed(name) ==
    IF \E c \in Contracts : c.Name = name
    THEN CHOOSE c \in Contracts : c.Name = name
    ELSE NoContract

\* The package variables as LoadNetworks leaves them when it is called once,
\* at the start of the process: those of the names listed are assigned, the
\* others are at their zero value.
LoadedOnce ==
    /\ WhizyPredictionMarketContract = ContractNamed("WhizyPredictionMarket")
    /\ ProtocolSelectorContract = ContractNamed("ProtocolSelector")

(***************************************************************************)
(* The log decoder (indexer/parser.go).                                    *)
(*                                                                         *)
(* A log is [Topics, Data, BlockNumber, TxHash, Index].  A decoder returns *)
(* [status, entity, err]: status "ok" with the entity, "error" with the    *)
(* message of the returned error, or "panic" when a slice expression is    *)
(* out of range (a Go run-time panic, which nothing recovers).             *)
(***************************************************************************)
NoEntity == [Kind |-> "none"]
Ok(e) == [status |-> "ok", entity |-> e, err |-> ""]
Err(msg) == [status |-> "error", entity |-> NoEntity, err |-> msg]
Panic == [status |-> "panic", entity |-> NoEntity, err |-> "slice bounds out of range"]

\* log.Data[32*i : 32*i+32], the i-th 32-byte word (i from 0).
Word(data, i) == Slice(data, 32 * i, 32 * i + 32)

\* The dynamic string of parseMarketCreated and parseProtocolRegistered:
\* offset is the uint64 read from the head word.  "set" with the bytes, "unset"
\* when a bound check fails, "panic" when a slice expression is out of range.
DynamicString(data, offset) ==
    LET n == U64(Len(data))
        lenEnd == U64Add(offset, U64(32))
    IN  IF U64Less(lenEnd, n)                     \* uint64(len(data)) > offset+32
        THEN IF ~SliceInBounds(data, offset, lenEnd)
             THEN [status |-> "panic", value |-> <<>>]
             ELSE LET strLen == Uint64(SetBytes(Slice(data, U64Int(offset), U64Int(lenEnd))))
                      strEnd == U64Add(lenEnd, strLen)
                  IN  IF ~U64Less(n, strEnd)      \* uint64(len(data)) >= offset+32+strLen
                      THEN IF ~SliceInBounds(data, lenEnd, strEnd)
                           THEN [status |-> "panic", value |-> <<>>]
                           ELSE [status |-> "set",
                                 value |-> Slice(data, U64Int(lenEnd), U64Int(strEnd))]
                      ELSE [status |-> "unset", value |-> <<>>]
        ELSE [status |-> "unset", value |-> <<>>]

\* Variant: parseBetPlaced without the test of the number of topics; the
\* fields read from missing topics stay at their zero values.
parseBetPlacedUnchecked(log, id, blockNumber, blockTimestamp, txHash) ==
    LET full == Len(log.Data) >= 96
    IN  Ok([Kind |-> "BetPlaced", ID |-> id,
            MarketID |-> IF Len(log.Topics) >= 2 THEN SetBytes(log.Topics[2]) ELSE <<>>,
            User |-> IF Len(log.Topics) >= 3 THEN AddressHex(log.Topics[3]) ELSE "",
            Position |-> IF full THEN NonZero(SetBytes(Word(log.Data, 0))) ELSE FALSE,
            Amount |-> IF full THEN SetBytes(Word(log.Data, 1)) ELSE <<>>,
            Shares |-> IF full THEN SetBytes(Word(log.Data, 2)) ELSE <<>>,
            BlockNumber |-> blockNumber, BlockTimestamp |-> blockTimestamp,
            TransactionHash |-> txHash])

\* Variant: parseBetPlaced reading amount and shares from each other's word.
parseBetPlacedSwapped(log, id, blockNumber, blockTimestamp, txHash) ==
    IF Len(log.Topics) < 3 THEN Err("insufficient topics for BetPlaced")
    ELSE LET full == Len(log.Data) >= 96
         IN  Ok([Kind |-> "BetPlaced", ID |-> id,
                 MarketID |-> SetBytes(log.Topics[2]),
                 User |-> AddressHex(log.Topics[3]),
                 Position |-> IF full THEN NonZero(SetBytes(Word(log.Data, 0))) ELSE FALSE,
                 Amount |-> IF full THEN SetBytes(Word(log.Data, 2)) ELSE <<>>,
                 Shares |-> IF full THEN SetBytes(Word(log.Data, 1)) ELSE <<>>,
                 BlockNumber |-> blockNumber, BlockTimestamp |-> blockTimestamp,
                 TransactionHash |-> txHash])

parseBetPlaced(log, id, blockNumber, blockTimestamp, txHash) ==
    IF Len(log.Topics) < 3 THEN Err("insufficient topics for BetPlaced")
    ELSE LET full == Len(log.Data) >= 96
         IN  Ok([Kind |-> "BetPlaced", ID |-> id,
                 MarketID |-> SetBytes(log.Topics[2]),
                 User |-> AddressHex(log.Topics[3]),
                 Position |-> IF full THEN NonZero(SetBytes(Word(log.Data, 0))) ELSE FALSE,
                 Amount |-> IF full THEN SetBytes(Word(log.Data, 1)) ELSE <<>>,
                 Shares |-> IF full THEN SetBytes(Word(log.Data, 2)) ELSE <<>>,
                 BlockNumber |-> blockNumber, BlockTimestamp |-> blockTimestamp,
                 TransactionHash |-> txHash])

\* Variant: parseMarketCreated reading every fixed field whose own word is
\* within the data.
parseMarketCreatedPerField(log, id, blockNumber, blockTimestamp, txHash) ==
    IF Len(log.Topics) < 2 THEN Err("insufficient topics for MarketCreated")
    ELSE LET full == Len(log.Data) >= 128
             str == IF full
                    THEN DynamicString(log.Data, Uint64(SetBytes(Word(log.Data, 0))))
                    ELSE [status |-> "unset", value |-> <<>>]
         IN  IF str.status = "panic" THEN Panic
             ELSE Ok([Kind |-> "MarketCreated", ID |-> id,
                      MarketID |-> SetBytes(log.Topics[2]),
                      Question |-> str.value,
                      EndTime |-> IF Len(log.Data) >= 64
                                  THEN SetBytes(Word(log.Data, 1)) ELSE <<>>,
                      TokenAddress |-> IF Len(log.Data) >= 96
                                       THEN AddressHex(Word(log.Data, 2)) ELSE "",
                      VaultAddress |-> IF full THEN AddressHex(Word(log.Data, 3)) ELSE "",
                      BlockNumber |-> blockNumber, BlockTimestamp |-> blockTimestamp,
                      TransactionHash |-> txHash])

parseMarketCreated(log, id, blockNumber, blockTimestamp, txHash) ==
    IF Len(log.Topics) < 2 THEN Err("insufficient topics for MarketCreated")
    ELSE LET full == Len(log.Data) >= 128
             str == IF full
                    THEN DynamicString(log.Data, Uint64(SetBytes(Word(log.Data, 0))))
                    ELSE [status |-> "unset", value |-> <<>>]
         IN  IF str.status = "panic" THEN Panic
             ELSE Ok([Kind |-> "MarketCreated", ID |-> id,
                      MarketID |-> SetBytes(log.Topics[2]),
                      Question |-> str.value,
                      EndTime |-> IF full THEN SetBytes(Word(log.Data, 1)) ELSE <<>>,
                      TokenAddress |-> IF full THEN AddressHex(Word(log.Data, 2)) ELSE "",
                      VaultAddress |-> IF full THEN AddressHex(Word(log.Data, 3)) ELSE "",
                      BlockNumber |-> blockNumber, BlockTimestamp |-> blockTimestamp,
                      TransactionHash |-> txHash])

parseMarketResolved(log, id, blockNumber, blockTimestamp, txHash) ==
    IF Len(log.Topics) < 2 THEN Err("insufficient topics for MarketResolved")
    ELSE Ok([Kind |-> "MarketResolved", ID |-> id,
             MarketID |-> SetBytes(log.Topics[2]),
             Outcome |-> IF Len(log.Data) >= 32
                         THEN NonZero(SetBytes(Word(log.Data, 0))) ELSE FALSE,
             BlockNumber |-> blockNumber, BlockTimestamp |-> blockTimestamp,
             TransactionHash |-> txHash])

parseWinningsClaimed(log, id, blockNumber, blockTimestamp, txHash) ==
    IF Len(log.Topics) < 3 THEN Err("insufficient topics for WinningsClaimed")
    ELSE Ok([Kind |-> "WinningsClaimed", ID |-> id,
             MarketID |-> SetBytes(log.Topics[2]),
             User |-> AddressHex(log.Topics[3]),
             WinningAmount |-> IF Len(log.Data) >= 32
                               THEN SetBytes(Word(log.Data, 0)) ELSE <<>>,
             BlockNumber |-> blockNumber, BlockTimestamp |-> blockTimestamp,
             TransactionHash |-> txHash])

parseAutoDepositExecuted(log, id, blockNumber, blockTimestamp, txHash) ==
    IF Len(log.Topics) < 3 THEN Err("insufficient topics for AutoDepositExecuted")
    ELSE LET full == Len(log.Data) >= 64
         IN  Ok([Kind |-> "AutoDepositExecuted", ID |-> id,
                 User |-> AddressHex(log.Topics[2]),
                 Protocol |-> AddressHex(log.Topics[3]),
                 Amount |-> IF full THEN SetBytes(Word(log.Data, 0)) ELSE <<>>,
                 Success |-> IF full THEN NonZero(SetBytes(Word(log.Data, 1))) ELSE FALSE,
                 BlockNumber |-> blockNumber, BlockTimestamp |-> blockTimestamp,
                 TransactionHash |-> txHash])

parseAutoWithdrawExecuted(log, id, blockNumber, blockTimestamp, txHash) ==
    IF Len(log.Topics) < 3 THEN Err("insufficient topics for AutoWithdrawExecuted")
    ELSE LET full == Len(log.Data) >= 64
         IN  Ok([Kind |-> "AutoWithdrawExecuted", ID |-> id,
                 User |-> AddressHex(log.Topics[2]),
                 Protocol |-> AddressHex(log.Topics[3]),
                 Amount |-> IF full THEN SetBytes(Word(log.Data, 0)) ELSE <<>>,
                 Success |-> IF full THEN NonZero(SetBytes(Word(log.Data, 1))) ELSE FALSE,
                 BlockNumber |-> blockNumber, BlockTimestamp |-> blockTimestamp,
                 TransactionHash |-> txHash])

parseOwnershipTransferred(log, id, blockNumber, blockTimestamp, txHash) ==
    IF Len(log.Topics) < 3 THEN Err("insufficient topics for OwnershipTransferred")
    ELSE Ok([Kind |-> "OwnershipTransferred", ID |-> id,
             PreviousOwner |-> AddressHex(log.Topics[2]),
             NewOwner |-> AddressHex(log.Topics[3]),
             BlockNumber |-> blockNumber, BlockTimestamp |-> blockTimestamp,
             TransactionHash |-> txHash])

parsePaused(log, id, blockNumber, blockTimestamp, txHash) ==
    Ok([Kind |-> "Paused", ID |-> id,
        Account |-> IF Len(log.Data) >= 32 THEN AddressHex(Word(log.Data, 0)) ELSE "",
        BlockNumber |-> blockNumber, BlockTimestamp |-> blockTimestamp,
        TransactionHash |-> txHash])

parseProtocolRegistered(log, id, blockNumber, blockTimestamp, txHash) ==
    IF Len(log.Topics) < 3 THEN Err("insufficient topics for ProtocolRegistered")
    ELSE LET full == Len(log.Data) >= 64
             str == IF full
                    THEN DynamicString(log.Data, Uint64(SetBytes(Word(log.Data, 0))))
                    ELSE [status |-> "unset", value |-> <<>>]
         IN  IF str.status = "panic" THEN Panic
             ELSE Ok([Kind |-> "ProtocolRegistered", ID |-> id,
                      ProtocolType |-> Int64(SetBytes(log.Topics[2])),
                      ProtocolAddress |-> AddressHex(log.Topics[3]),
                      Name |-> str.value,
                      RiskLevel |-> IF full THEN Int64(SetBytes(Word(log.Data, 1)))
                                    ELSE U64(0),
                      BlockNumber |-> blockNumber, BlockTimestamp |-> blockTimestamp,
                      TransactionHash |-> txHash])

parseProtocolUpdated(log, id, blockNumber, blockTimestamp, txHash) ==
    IF Len(log.Topics) < 2 THEN Err("insufficient topics for ProtocolUpdated")
    ELSE LET full == Len(log.Data) >= 64
         IN  Ok([Kind |-> "ProtocolUpdated", ID |-> id,
                 ProtocolAddress |-> AddressHex(log.Topics[2]),
                 NewApy |-> IF full THEN SetBytes(Word(log.Data, 0)) ELSE <<>>,
                 NewTvl |-> IF full THEN SetBytes(Word(log.Data, 1)) ELSE <<>>,
                 BlockNumber |-> blockNumber, BlockTimestamp |-> blockTimestamp,
                 TransactionHash |-> txHash])

parseUnpaused(log, id, blockNumber, blockTimestamp, txHash) ==
    Ok([Kind |-> "Unpaused", ID |-> id,
        Account |-> IF Len(log.Data) >= 32 THEN AddressHex(Word(log.Data, 0)) ELSE "",
        BlockNumber |-> blockNumber, BlockTimestamp |-> blockTimestamp,
        TransactionHash |-> txHash])

RECURSIVE GoString(_)
\* The Go string whose characters are cs, as %s prints it.
GoString(cs) == IF cs = << >> THEN "" ELSE cs[1] \o GoString(Tail(cs))

\* The body of ParseLog, given the addresses the two package variables hold.
Dispatch(log, contractAddress, blockTimestamp, pmAddress, psAddress) ==
    IF Len(log.Topics) = 0 THEN Err("log has no topics")
    ELSE
    LET eventSig == log.Topics[1]
        txHash == HashHex(log.TxHash)
        blockNumber == SetUint64(log.BlockNumber)
        blockTS == SetUint64(blockTimestamp)
        id == EntityID(txHash, log.Index)
        pm == EqualFold(contractAddress, pmAddress)
        ps == EqualFold(contractAddress, psAddress)
    IN  CASE pm /\ eventSig = BetPlacedSignature ->
               parseBetPlaced(log, id, blockNumber, blockTS, txHash)
          [] pm /\ eventSig = MarketCreatedSignature ->
               parseMarketCreated(log, id, blockNumber, blockTS, txHash)
          [] pm /\ eventSig = MarketResolvedSignature ->
               parseMarketResolved(log, id, blockNumber, blockTS, txHash)
          [] pm /\ eventSig = WinningsClaimedSignature ->
               parseWinningsClaimed(log, id, blockNumber, blockTS, txHash)
          [] ps /\ eventSig = AutoDepositExecutedSignature ->
               parseAutoDepositExecuted(log, id, blockNumber, blockTS, txHash)
          [] ps /\ eventSig = AutoWithdrawExecutedSignature ->
               parseAutoWithdrawExecuted(log, id, blockNumber, blockTS, txHash)
          [] ps /\ eventSig = OwnershipTransferredSignature ->
               parseOwnershipTransferred(log, id, blockNumber, blockTS, txHash)
          [] ps /\ eventSig = PausedSignature ->
               parsePaused(log, id, blockNumber, blockTS, txHash)
          [] ps /\ eventSig = ProtocolRegisteredSignature ->
               parseProtocolRegistered(log, id, blockNumber, blockTS, txHash)
          [] ps /\ eventSig = ProtocolUpdatedSignature ->
               parseProtocolUpdated(log, id, blockNumber, blockTS, txHash)
          [] ps /\ eventSig = UnpausedSignature ->
               parseUnpaused(log, id, blockNumber, blockTS, txHash)
          [] OTHER -> Err("unknown event signature: " \o HashHex(eventSig)
                              \o " for contract " \o GoString(contractAddress))

ParseLog(log, contractAddress, blockTimestamp) ==
    Dispatch(log, contractAddress, blockTimestamp,
             WhizyPredictionMarketContract.Address, ProtocolSelectorContract.Address)

(***************************************************************************)
(* The chain the RPC endpoint serves: blocks 1..MaxHeight.  The logs of a  *)
(* block repeat with period 3, the transaction hash is the block number.   *)
(***************************************************************************)
Hash32(n) == Zeros(31) \o << n >>
WordOfNat(n) == Zeros(32 - Len(NatBytes(n))) \o NatBytes(n)
AddressWord(b) == Zeros(12) \o [i \in 1..20 |-> b]
\* The 32-byte word whose low 64 bits are 2^64 - k (k in 1..255).
WordTwo64Minus(k) == Zeros(24) \o [i \in 1..7 |-> 255] \o << 256 - k >>

Log(topics, data, block, index) ==
    [Topics |-> topics, Data |-> data, BlockNumber |-> block,
     TxHash |-> Hash32(block), Index |-> index]

\* ABI encoding of MarketCreated's data: string offset, endTime, token,
\* vault, then the string's length and its bytes padded to a word.
MarketCreatedData ==
    WordOfNat(128) \o WordOfNat(1800000000) \o AddressWord(187) \o AddressWord(204)
        \o WordOfNat(2) \o << 81, 63 >> \o Zeros(30)

\* ProtocolRegistered's data with a string offset of 2^64 - 32.
ProtocolRegisteredWrapData ==
    WordTwo64Minus(32) \o WordOfNat(3) \o WordOfNat(4) \o << 65, 97, 118, 101 >> \o Zeros(28)

WhizyLogs(b) ==
    CASE (b - 1) % 3 = 0 ->
           << Log(<< BetPlacedSignature, WordOfNat(7), AddressWord(170) >>,
                  WordOfNat(1) \o WordOfNat(100) \o WordOfNat(50), b, 0) >>
      [] (b - 1) % 3 = 1 ->
           << Log(<< TransferSignature, AddressWord(1), AddressWord(2) >>,
                  WordOfNat(5), b, 0),
              Log(<< MarketCreatedSignature, WordOfNat(7) >>, MarketCreatedData, b, 1) >>
      [] OTHER ->
           << Log(<< BetPlacedSignature, WordOfNat(7) >>,
                  WordOfNat(1) \o WordOfNat(100) \o WordOfNat(50), b, 0),
              Log(<< MarketResolvedSignature, WordOfNat(7) >>, WordOfNat(1), b, 1),
              Log(<< BetPlacedSignature, WordOfNat(8), AddressWord(171) >>,
                  WordOfNat(0) \o WordOfNat(30) \o WordOfNat(20), b, 2) >>

ProtocolSelectorLogs(b) ==
    CASE (b - 1) % 3 = 0 ->
           << Log(<< >>, WordOfNat(9), b, 0),
              Log(<< PausedSignature >>, AddressWord(221), b, 1),
              Log(<< OwnershipTransferredSignature, AddressWord(0), AddressWord(221) >>,
                  << >>, b, 2) >>
      [] (b - 1) % 3 = 1 ->
           << Log(<< ProtocolRegisteredSignature, WordOfNat(1), AddressWord(238) >>,
                  ProtocolRegisteredWrapData, b, 0) >>
      [] OTHER ->
           << Log(<< ProtocolUpdatedSignature, AddressWord(238) >>,
                  WordOfNat(500) \o WordOfNat(1000), b, 0) >>

\* The logs the contract at this address emitted in block b.
\* common.HexToAddress reads the address without regard to letter case.
ChainLogs(address, b) ==
    IF EqualFold(address, WhizyAddress) THEN WhizyLogs(b)
    ELSE IF EqualFold(address, ProtocolSelectorAddress) THEN ProtocolSelectorLogs(b)
    ELSE << >>

\* header.Time of block b.
BlockTime(b) == 1700000000 + 12 * b

\* Values time.Now().Unix() takes while the indexer runs.
WallClocks == { 1800000000, 1800000060 }

(***************************************************************************)
(* The RPC client (indexer/rpc.go).  A call either fails or returns what   *)
(* the chain holds; which of the two is chosen by the action calling it.   *)
(***************************************************************************)
RECURSIVE LogsFrom(_, _, _)
LogsFrom(address, from, to) ==
    IF from > to THEN << >>
    ELSE ChainLogs(address, from) \o LogsFrom(address, from + 1, to)

\* RPCClient.GetLogs, when the call succeeds: all logs of the address in
\* [fromBlock, toBlock], in block and index order.
GetLogs(address, fromBlock, toBlock) == LogsFrom(address, fromBlock, toBlock)

\* RPCClient.GetLatestBlockNumber, when the call succeeds: the height of the
\* node that answers, which may lag behind other nodes of the endpoint.
LatestBlockNumbers == 0..MaxHeight

(***************************************************************************)
(* Storage (config/db.go and gorm): table sync_states and one table per    *)
(* entity kind, each keyed by its primary key.                             *)
(***************************************************************************)
\* The tables in the order storeEntities inserts into them.
KindOrder ==
    << "BetPlaced", "MarketCreated", "MarketResolved", "WinningsClaimed",
       "AutoDepositExecuted", "AutoWithdrawExecuted", "OwnershipTransferred",
       "Paused", "ProtocolRegistered", "ProtocolUpdated", "Unpaused" >>
Kinds == { KindOrder[i] : i \in 1..Len(KindOrder) }

\* The zero value of config.SyncState (var state config.SyncState).
NoState == [ContractAddress |-> << >>, ContractName |-> "", LastBlock |-> 0,
            LastBlockHash |-> ""]

\* Variant: the query has no WHERE clause.
SyncStateOfAny(address) == sync_states

\* db.Where("contract_address = ?", address).First(&state): the rows found.
SyncStateOf(address) == { r \in sync_states : r.ContractAddress = address }

\* The stored cursor of a contract address (0 when there is no row).
Cursor(address) ==
    IF SyncStateOf(address) = {} THEN 0
    ELSE (CHOOSE r \in SyncStateOf(address) : TRUE).LastBlock

\* Variant: the row of every configured contract is written at each start
\* (an upsert seeded with the start block).
EnsureInitialReset(rows, failing) ==
    { r \in rows : \A d \in Contracts \ failing : r.ContractAddress # d.Address }
    \cup
    { [ContractAddress |-> c.Address, ContractName |-> c.Name,
       LastBlock |-> c.StartBlock, LastBlockHash |-> ""] : c \in Contracts \ failing }

\* EnsureInitialSyncStateData: for every configured contract without a row,
\* create one seeded with the start block.  `failing` are the contracts for
\* which the query or the insert returns a database error (it is printed and
\* the contract is skipped).
EnsureInitialSyncStateData(rows, failing) ==
    rows \cup
    { [ContractAddress |-> c.Address, ContractName |-> c.Name,
       LastBlock |-> c.StartBlock, LastBlockHash |-> ""] :
      c \in { d \in Contracts \ failing :
                \A r \in rows : r.ContractAddress # d.Address } }

\* db.Save(&state): insert the row or update all its fields by primary key.
SaveSyncState(rows, state) ==
    { r \in rows : r.ContractAddress # state.ContractAddress } \cup { state }

\* Variant: the insert replaces the stored row (ON CONFLICT DO UPDATE).
OnConflictUpdate(table, row) ==
    { r \in table : r.ID # row.ID } \cup { row }

\* Variant: the insert has no conflict clause and the table no key.
OnConflictAppend(table, row) == table \cup { row }

\* INSERT ... ON CONFLICT DO NOTHING of one row.
OnConflictDoNothing(table, row) ==
    IF \E r \in table : r.ID = row.ID THEN table ELSE table \cup { row }

RECURSIVE insertSlice(_, _)
\* insertSlice of storeEntities: db.Clauses(clause.OnConflict{DoNothing: true})
\* .Create(slice), when the statement succeeds.
insertSlice(table, slice) ==
    IF slice = << >> THEN table
    ELSE insertSlice(OnConflictDoNothing(table, Head(slice)), Tail(slice))

\* The entities of one kind, in order (the type switch of storeEntities).
BatchOf(entities, kind) == SelectSeq(entities, LAMBDA e : e.Kind = kind)

\* The position in KindOrder of the first kind from position i on of which
\* the entities have a batch (if len(slice) > 0), or 0 when there is none.
NextKind(entities, i) ==
    LET is == { j \in i..Len(KindOrder) : BatchOf(entities, KindOrder[j]) # << >> }
    IN  IF is = {} THEN 0 ELSE CHOOSE j \in is : \A k \in is : j <= k

\* Variant: the batches are inserted in one transaction; a failing insert
\* rolls back the rows the earlier inserts of the call added.
storeEntitiesRollingBack(tabs, entities, i, ok) ==
    IF ok
    THEN [tabs EXCEPT ![KindOrder[i]] = insertSlice(@, BatchOf(entities, KindOrder[i]))]
    ELSE [k \in Kinds |->
            { r \in tabs[k] :
                \A j \in 1..Len(entities) :
                    ~(entities[j].Kind = k /\ entities[j] = r) }]

\* One insert of storeEntities(db, entities): the tables after the batch of
\* the kind at position i of KindOrder was handed to insertSlice, which
\* succeeded (ok) or returned an error.  Each insert is a statement of its
\* own; nothing encloses them in a transaction.
storeEntities(tabs, entities, i, ok) ==
    IF ok
    THEN [tabs EXCEPT ![KindOrder[i]] = insertSlice(@, BatchOf(entities, KindOrder[i]))]
    ELSE tabs

(***************************************************************************)
(* The synchronisation loop (indexer/indexer.go).                          *)
(***************************************************************************)
Names == { c.Name : c \in Contracts }

\* A goroutine that is not running: every local at its zero value.
NoUnit == [pc |-> "none", state |-> NoState, latestBlock |-> 0, fromBlock |-> 0,
           toBlock |-> 0, sleep |-> 0, next |-> 0, blockTimestamps |-> {},
           entities |-> << >>, kind |-> 0]

NoFail == [step |-> "none", fromBlock |-> 0, toBlock |-> 0]
NoCrash == [fromBlock |-> 0, toBlock |-> 0]
\* What is recorded of a unit's run; headers lists the blocks for which
\* GetBlockWithTimestamp was called in the current call of processBlockRange.
NoHist == [lastFail |-> NoFail, prevTo |-> -1, maxTo |-> -1, crashed |-> NoCrash,
           overlaid |-> FALSE, failKind |-> "none", headers |-> << >>]

\* Variant: the caught-up test is an equality.
CaughtUpWhenEqual(lastBlock, latestBlock) == lastBlock = latestBlock

\* Variant: the loop idles only when the cursor is above the height.
CaughtUpStrict(lastBlock, latestBlock) == lastBlock > latestBlock

\* uint64(state.LastBlock) >= latestBlock
CaughtUp(lastBlock, latestBlock) == lastBlock >= latestBlock

\* Variant: the range starts one block late.
FromBlockSkipping(lastBlock) == lastBlock + 2

\* fromBlock := uint64(state.LastBlock) + 1
FromBlock(lastBlock) == lastBlock + 1

\* Variant: the upper bound is not clamped.
ToBlockUnclamped(fromBlock, batchSize, latestBlock) == fromBlock + batchSize - 1

\* toBlock := fromBlock + uint64(cfg.BlockBatchSize) - 1, then clamped to
\* latestBlock.  On uint64 the sum is fromBlock + batchSize - 1 when that is
\* not negative, and 2^64 more when it is, which exceeds every height.
ToBlock(fromBlock, batchSize, latestBlock) ==
    LET sum == fromBlock + batchSize - 1
    IN  IF sum < 0 \/ sum > latestBlock THEN latestBlock ELSE sum

\* The addresses the configuration can name.
Addresses == { WhizyAddress, ProtocolSelectorAddress }

\* The timestamps blockTimestamps can hold for block b: the header's, or the
\* wall clock's when the header could not be fetched.
TimesOf(b) == { BlockTime(b) } \cup WallClocks

\* What eth_getLogs serves for one block and for a range of blocks of one
\* address, and what ParseLog returns for each served log given a timestamp.
\* All depend only on the chain, so they are tabulated once.
ServedLogs ==
    [a \in Addresses |-> [b \in 0..MaxHeight |-> GetLogs(a, b, b)]] @@ << >>
FetchedLogs ==
    [a \in Addresses |-> [from \in 0..(MaxHeight + 1) |-> [to \in 0..MaxHeight |->
       GetLogs(a, from, to)] @@ << >>] @@ << >>] @@ << >>
ParsedLogs ==
    [pm \in { << >>, WhizyAddress } |-> [ps \in { << >>, ProtocolSelectorAddress } |->
       [a \in Addresses |-> [b \in 0..MaxHeight |-> [t \in TimesOf(b) |->
          [i \in 1..Len(ServedLogs[a][b]) |-> Dispatch(ServedLogs[a][b][i], a, t, pm, ps)]
       ] @@ << >>] @@ << >>] @@ << >>] @@ << >>] @@ << >>

\* ParseLog(log, address, timestamp) for a log the chain serves: the log is
\* the one with index log.Index of block log.BlockNumber.
ParseServedLog(log, address, timestamp) ==
    ParsedLogs[WhizyPredictionMarketContract.Address][ProtocolSelectorContract.Address]
              [address][log.BlockNumber][timestamp][log.Index + 1]

\* Whether a call on the RPC client can succeed.  go-ethereum's Close is a
\* no-op for an HTTP client and shuts down any other connection, after which
\* every call returns an error.
RpcUsable == rpcClient = "open" \/ (rpcClient = "closed" /\ RPCEndpoint = "http")

\* Variant: blockTimestamps is never consulted.
LookupNever(blockTimestamps, blockNum) == {}

\* timestamp, ok := blockTimestamps[blockNum]: the timestamps the map holds
\* for the block (none when ok is false).
Lookup(blockTimestamps, blockNum) ==
    { p[2] : p \in { q \in blockTimestamps : q[1] = blockNum } }

\* rpcClient.GetBlockWithTimestamp(ctx, blockNum) with its error branch:
\* header.Time when the call succeeds, time.Now().Unix() when it fails.
HeaderTimeOrNow(blockNum) ==
    (IF RpcUsable THEN { BlockTime(blockNum) } ELSE {}) \cup WallClocks

\* The locals of indexContract when no call of processBlockRange is active.
Outside(u) ==
    [u EXCEPT !.next = 0, !.blockTimestamps = {}, !.entities = << >>, !.kind = 0]
\* The unit `n` at another place of its loop.
Goto(n, pc) == [Outside(unit[n]) EXCEPT !.pc = pc]
\* time.Sleep(ms) followed by continue (or by the end of the loop body).
Sleep(u, ms) == [Outside(u) EXCEPT !.pc = "sleep", !.sleep = ms]

\* RunIndexer up to the loop over the contracts: dial the endpoint; on
\* failure return without starting anything.
RunIndexer(dialed) ==
    /\ unit' = [n \in Names |-> NoUnit]
    /\ rpcClient' = IF dialed THEN "open" ELSE "none"

\* Process start (main.go is not part of the sources; from the
\* specification: the cursors are ensured once at startup, then the units
\* run).  The database handle exists from here on, so GetDBInstance in
\* indexContract returns it without error.
Main ==
    /\ proc # "up"
    /\ proc' = "up"
    /\ \E failing \in SUBSET Contracts :
         sync_states' = EnsureInitialSyncStateData(sync_states, failing)
    /\ \E dialed \in BOOLEAN : RunIndexer(dialed)
    /\ UNCHANGED << Contracts, named, BlockBatchSize, cancelled, tables, RPCEndpoint,
                    kills, hist, plog, paddr, pres >>

\* go indexContract(ctx, cfg, rpcClient, contract): RunIndexer's loop starts
\* the goroutine of one more contract, which gets the database handle and
\* stands before its loop.
Spawn(n) ==
    /\ proc = "up"
    /\ rpcClient = "open"
    /\ unit[n].pc = "none"
    /\ unit' = [unit EXCEPT ![n] = [NoUnit EXCEPT !.pc = "top"]]
    /\ UNCHANGED << Contracts, named, BlockBatchSize, proc, cancelled, sync_states,
                    tables, rpcClient, RPCEndpoint, kills, hist, plog, paddr, pres >>

\* RunIndexer returns once every goroutine is started, without waiting for
\* any of them; its deferred rpcClient.Close() runs then.
Return ==
    /\ proc = "up"
    /\ rpcClient = "open"
    /\ \A n \in Names : unit[n].pc # "none"
    /\ rpcClient' = "closed"
    /\ UNCHANGED << Contracts, named, BlockBatchSize, proc, cancelled, sync_states,
                    tables, unit, RPCEndpoint, kills, hist, plog, paddr, pres >>

\* Top of the loop: the select on ctx.Done() and Shutdown, then the read of
\* the contract's sync state.
FetchingCursor(n) ==
    /\ proc = "up"
    /\ unit[n].pc = "top"
    /\ IF cancelled
       THEN unit' = [unit EXCEPT ![n] = Goto(n, "stopped")]
       ELSE \E dbOK \in BOOLEAN :
              LET found == SyncStateOf(ContractNamed(n).Address)
              IN  unit' = [unit EXCEPT ![n] =
                     IF dbOK /\ found # {}
                     THEN [@ EXCEPT !.pc = "height",
                                    !.state = CHOOSE r \in found : TRUE]
                     ELSE Sleep(@, 5000)]
    /\ UNCHANGED << Contracts, named, BlockBatchSize, proc, cancelled, sync_states, tables,
                    rpcClient, RPCEndpoint, kills, hist, plog, paddr, pres >>

\* GetLatestBlockNumber, the caught-up test and the computation of the range.
FetchingHeight(n) ==
    /\ proc = "up"
    /\ unit[n].pc = "height"
    /\ \E ok \in BOOLEAN, h \in LatestBlockNumbers :
         LET u == unit[n]
             from == FromBlock(u.state.LastBlock)
             to == ToBlock(from, BlockBatchSize, h)
             ranged == ok /\ RpcUsable /\ ~CaughtUp(u.state.LastBlock, h)
         IN  /\ unit' = [unit EXCEPT ![n] =
                  IF ~(ok /\ RpcUsable) THEN Sleep(u, 5000)
                  ELSE IF CaughtUp(u.state.LastBlock, h)
                       THEN Sleep([u EXCEPT !.latestBlock = h], 5000)
                       ELSE [u EXCEPT !.pc = "range", !.latestBlock = h,
                                      !.fromBlock = from, !.toBlock = to]]
             /\ hist' = [hist EXCEPT ![n].crashed =
                  IF ranged /\ (@.fromBlock # from \/ @.toBlock # to)
                  THEN NoCrash ELSE @]
    /\ UNCHANGED << Contracts, named, BlockBatchSize, proc, cancelled, sync_states, tables,
                    rpcClient, RPCEndpoint, kills, plog, paddr, pres >>

\* Variant: after a failed step the loop goes on to save the cursor.
FailedAdvancing(n, step, h) ==
    /\ unit' = [unit EXCEPT ![n] = Goto(n, "save")]
    /\ hist' = [h EXCEPT ![n].lastFail =
                  [step |-> step, fromBlock |-> unit[n].fromBlock,
                   toBlock |-> unit[n].toBlock]]

\* processBlockRange returned an error, or db.Save did: print, sleep,
\* continue.  h is the record of observations to extend.
Failed(n, step, h) ==
    /\ unit' = [unit EXCEPT ![n] = Sleep(@, 5000)]
    /\ hist' = [h EXCEPT ![n].lastFail =
                  [step |-> step, fromBlock |-> unit[n].fromBlock,
                   toBlock |-> unit[n].toBlock]]

\* processBlockRange returned nil.
Processed(n, h) ==
    /\ unit' = [unit EXCEPT ![n] = Goto(n, "save")]
    /\ hist' = [h EXCEPT ![n].lastFail = NoFail]

\* A run-time panic in a goroutine ends the process.
ProcessDies ==
    /\ proc' = "panicked"
    /\ cancelled' = FALSE
    /\ rpcClient' = "none"
    /\ unit' = [n \in Names |-> NoUnit]
    /\ hist' = [n \in Names |-> [hist[n] EXCEPT !.lastFail = NoFail, !.headers = << >>]]

\* Variant: the error of storeEntities is dropped.
AfterStoreSwallowed(n, failed, h) == Processed(n, h)

\* Variant: the error of storeEntities is printed and the loop goes on to
\* save the cursor.
AfterStoreAdvancing(n, failed, h) ==
    /\ unit' = [unit EXCEPT ![n] = Goto(n, "save")]
    /\ hist' = [h EXCEPT ![n].lastFail =
                  IF failed
                  THEN [step |-> "store", fromBlock |-> unit[n].fromBlock,
                        toBlock |-> unit[n].toBlock]
                  ELSE NoFail]

\* Where the loop goes after storeEntities returned.
AfterStore(n, failed, h) ==
    IF failed THEN Failed(n, "store", h) ELSE Processed(n, h)

\* Whether a table already holds a row with the identifier of one of the
\* entities, with other field values.
Overlaid(tabs, entities) ==
    \E i \in 1..Len(entities) : \E r \in tabs[entities[i].Kind] :
        r.ID = entities[i].ID /\ r # entities[i]

\* processBlockRange up to the loop over the logs: GetLogs for the range;
\* an error is returned, no logs end the function, otherwise blockTimestamps
\* is made and the loop starts at the first log.
ProcessBlockRange(n) ==
    /\ proc = "up"
    /\ unit[n].pc = "range"
    /\ LET u == unit[n]
           logs == FetchedLogs[ContractNamed(n).Address][u.fromBlock][u.toBlock]
       IN  \/ Failed(n, "logs", hist)
           \/ /\ RpcUsable
              /\ Len(logs) = 0
              /\ Processed(n, hist)
           \/ /\ RpcUsable
              /\ Len(logs) # 0
              /\ unit' = [unit EXCEPT ![n] =
                            [u EXCEPT !.pc = "logs", !.next = 1,
                                      !.blockTimestamps = {}]]
              /\ hist' = [hist EXCEPT ![n].headers = << >>]
    /\ UNCHANGED << Contracts, named, BlockBatchSize, proc, cancelled, sync_states,
                    tables, rpcClient, RPCEndpoint, kills, plog, paddr, pres >>

\* One iteration of the loop over the logs: the timestamp of the log's block
\* is read from blockTimestamps or, when the block is not in it, the header
\* is fetched (on an error the wall clock is taken) and the timestamp is
\* put into the map; then ParseLog: a panic ends the process, an error skips
\* the log, an entity is appended.  After the last log: nothing decoded ends
\* the function, otherwise storeEntities is entered.
ParseLogs(n) ==
    /\ proc = "up"
    /\ unit[n].pc = "logs"
    /\ LET u == unit[n]
           address == ContractNamed(n).Address
           logs == FetchedLogs[address][u.fromBlock][u.toBlock]
           log == logs[u.next]
           blockNum == log.BlockNumber
           cached == Lookup(u.blockTimestamps, blockNum)
       IN  \E timestamp \in (IF cached # {} THEN cached ELSE HeaderTimeOrNow(blockNum)) :
             LET result == ParseServedLog(log, address, timestamp)
                 stamps == IF cached # {} THEN u.blockTimestamps
                           ELSE u.blockTimestamps \cup { << blockNum, timestamp >> }
                 entities == IF result.status = "ok"
                             THEN Append(u.entities, result.entity) ELSE u.entities
                 h == [hist EXCEPT ![n].headers =
                         IF cached # {} THEN @ ELSE Append(@, blockNum)]
             IN  IF result.status = "panic" THEN ProcessDies
                 ELSE IF u.next < Len(logs)
                 THEN /\ unit' = [unit EXCEPT ![n] =
                                    [u EXCEPT !.next = u.next + 1,
                                              !.blockTimestamps = stamps,
                                              !.entities = entities]]
                      /\ hist' = h
                      /\ UNCHANGED << proc, cancelled, rpcClient >>
                 ELSE IF entities = << >>
                 THEN /\ Processed(n, h)
                      /\ UNCHANGED << proc, cancelled, rpcClient >>
                 ELSE /\ unit' = [unit EXCEPT ![n] =
                                    [u EXCEPT !.pc = "store",
                                              !.blockTimestamps = stamps,
                                              !.entities = entities,
                                              !.kind = NextKind(entities, 1)]]
                      /\ hist' = [h EXCEPT ![n].overlaid = Overlaid(tables, entities)]
                      /\ UNCHANGED << proc, cancelled, rpcClient >>
    /\ UNCHANGED << Contracts, named, BlockBatchSize, sync_states, tables,
                    RPCEndpoint, kills, plog, paddr, pres >>

\* storeEntities, one insert: the batch of the next kind that has one is
\* inserted; an error ends the function and is returned by
\* processBlockRange, after the last batch processBlockRange returns nil.
StoreEntities(n) ==
    /\ proc = "up"
    /\ unit[n].pc = "store"
    /\ \E ok \in BOOLEAN :
         LET u == unit[n]
             following == NextKind(u.entities, u.kind + 1)
         IN  /\ tables' = storeEntities(tables, u.entities, u.kind, ok)
             /\ IF ok /\ following # 0
                THEN /\ unit' = [unit EXCEPT ![n].kind = following]
                     /\ UNCHANGED hist
                ELSE AfterStore(n, ~ok,
                        [hist EXCEPT ![n].failKind =
                           IF ok THEN "none" ELSE KindOrder[u.kind]])
    /\ UNCHANGED << Contracts, named, BlockBatchSize, proc, cancelled, sync_states,
                    rpcClient, RPCEndpoint, kills, plog, paddr, pres >>

\* Variant: the row is written although db.Save reports an error.
AfterSaveAlways(rows, state, saved) == SaveSyncState(rows, state)

\* The rows of sync_states after db.Save(&state) returned.
AfterSave(rows, state, saved) == IF saved THEN SaveSyncState(rows, state) ELSE rows

\* state.LastBlock = int64(toBlock); db.Save(&state); then the short pause,
\* or the error branch.
AdvancingCursor(n) ==
    /\ proc = "up"
    /\ unit[n].pc = "save"
    /\ \E saved \in BOOLEAN :
         LET u == unit[n]
             state == [u.state EXCEPT !.LastBlock = u.toBlock]
         IN  /\ sync_states' = AfterSave(sync_states, state, saved)
             /\ unit' = [unit EXCEPT ![n] =
                           Sleep([u EXCEPT !.state = state], IF saved THEN 100 ELSE 5000)]
             /\ hist' = [hist EXCEPT ![n] =
                  IF saved
                  THEN [@ EXCEPT !.prevTo = u.toBlock,
                                 !.maxTo = IF u.toBlock > @ THEN u.toBlock ELSE @]
                  ELSE [@ EXCEPT !.lastFail =
                          [step |-> "save", fromBlock |-> u.fromBlock,
                           toBlock |-> u.toBlock]]]
    /\ UNCHANGED << Contracts, named, BlockBatchSize, proc, cancelled, tables, rpcClient,
                    RPCEndpoint, kills, plog, paddr, pres >>

\* The sleep ends and the next iteration begins: the locals of the loop body
\* are gone.
Wake(n) ==
    /\ proc = "up"
    /\ unit[n].pc = "sleep"
    /\ unit' = [unit EXCEPT ![n] = [NoUnit EXCEPT !.pc = "top"]]
    /\ hist' = [hist EXCEPT ![n].crashed = IF unit[n].sleep = 100 THEN NoCrash ELSE @,
                            ![n].overlaid = FALSE,
                            ![n].failKind = "none",
                            ![n].headers = << >>]
    /\ UNCHANGED << Contracts, named, BlockBatchSize, proc, cancelled, sync_states, tables,
                    rpcClient, RPCEndpoint, kills, plog, paddr, pres >>

\* The context is cancelled or the Shutdown channel is closed.
Cancel ==
    /\ proc = "up"
    /\ ~cancelled
    /\ cancelled' = TRUE
    /\ UNCHANGED << Contracts, named, BlockBatchSize, proc, sync_states, tables, unit,
                    rpcClient, RPCEndpoint, kills, hist, plog, paddr, pres >>

\* The process is killed (or exits); the database keeps what was committed.
Kill ==
    /\ proc = "up"
    /\ kills < MaxCrashes
    /\ kills' = kills + 1
    /\ proc' = "down"
    /\ cancelled' = FALSE
    /\ rpcClient' = "none"
    /\ unit' = [n \in Names |-> NoUnit]
    /\ hist' = [n \in Names |->
         [hist[n] EXCEPT
            !.lastFail = NoFail,
            !.overlaid = FALSE,
            !.failKind = "none",
            !.headers = << >>,
            !.crashed =
               IF unit[n].pc = "save"
               THEN [fromBlock |-> unit[n].fromBlock, toBlock |-> unit[n].toBlock]
               ELSE IF unit[n].pc = "sleep" /\ unit[n].sleep = 100
                    THEN NoCrash ELSE @]]
    /\ UNCHANGED << Contracts, named, BlockBatchSize, sync_states, tables, RPCEndpoint,
                    plog, paddr, pres >>

\* The configurations explored: one monitored contract, with its start block.
Configs ==
    { { [Name |-> "WhizyPredictionMarket", Address |-> WhizyAddress, StartBlock |-> s] } :
        s \in 0..1 }
    \cup
    { { [Name |-> "ProtocolSelector", Address |-> ProtocolSelectorAddress,
         StartBlock |-> s] } : s \in 0..1 }

\* Both contracts of networks.json, monitored from block 0.
BothContracts ==
    { [Name |-> "WhizyPredictionMarket", Address |-> WhizyAddress, StartBlock |-> 0],
      [Name |-> "ProtocolSelector", Address |-> ProtocolSelectorAddress,
       StartBlock |-> 0] }

NoLog == [Topics |-> << >>, Data |-> << >>, BlockNumber |-> 0, TxHash |-> Hash32(0),
          Index |-> 0]

\* The values of blockBatchSize explored.  LoadConfig reads the key into an
\* int and validates nothing: the value is 0 when config.yaml does not set
\* it, and may be negative.
BatchSizes == (-1)..MaxBatch

\* The state before the process starts.
Init ==
    /\ Contracts \in Configs
    /\ LoadedOnce
    /\ BlockBatchSize \in BatchSizes
    /\ RPCEndpoint \in { "http", "ws" }
    /\ proc = "down"
    /\ cancelled = FALSE
    /\ rpcClient = "none"
    /\ kills = 0
    /\ sync_states = {}
    /\ tables = [k \in Kinds |-> {}]
    /\ unit = [n \in Names |-> NoUnit]
    /\ hist = [n \in Names |-> NoHist]
    /\ plog = NoLog
    /\ paddr = << >>
    /\ pres = Err("")

Next ==
    \/ Main
    \/ \E n \in Names : Spawn(n)
    \/ Return
    \/ Cancel
    \/ Kill
    \/ \E n \in Names : FetchingCursor(n)
    \/ \E n \in Names : FetchingHeight(n)
    \/ \E n \in Names : ProcessBlockRange(n)
    \/ \E n \in Names : ParseLogs(n)
    \/ \E n \in Names : StoreEntities(n)
    \/ \E n \in Names : AdvancingCursor(n)
    \/ \E n \in Names : Wake(n)

Spec == Init /\ [][Next]_vars

(***************************************************************************)
(* The running process: the steps of a process nobody kills, with the      *)
(* goroutines scheduled fairly (every call a unit makes returns, every     *)
(* sleep ends).                                                            *)
(***************************************************************************)
NextRunning ==
    \/ Main
    \/ \E n \in Names : Spawn(n)
    \/ Return
    \/ Cancel
    \/ \E n \in Names : FetchingCursor(n)
    \/ \E n \in Names : FetchingHeight(n)
    \/ \E n \in Names : ProcessBlockRange(n)
    \/ \E n \in Names : ParseLogs(n)
    \/ \E n \in Names : StoreEntities(n)
    \/ \E n \in Names : AdvancingCursor(n)
    \/ \E n \in Names : Wake(n)

\* The Go scheduler runs every runnable goroutine: a unit that can take its
\* next step takes it.
Scheduling ==
    /\ WF_vars(\E n \in Names : Spawn(n))
    /\ WF_vars(Return)
    /\ WF_vars(\E n \in Names : FetchingCursor(n))
    /\ WF_vars(\E n \in Names : FetchingHeight(n))
    /\ WF_vars(\E n \in Names : ProcessBlockRange(n))
    /\ WF_vars(\E n \in Names : ParseLogs(n))
    /\ WF_vars(\E n \in Names : StoreEntities(n))
    /\ WF_vars(\E n \in Names : AdvancingCursor(n))
    /\ WF_vars(\E n \in Names : Wake(n))

SpecLive == Init /\ [][NextRunning]_vars /\ Scheduling

\* The configurations LoadConfig accepts as they are: blockBatchSize is an
\* int that nothing validates; it is 0 when config.yaml does not set it and
\* may be negative.
InitUnvalidated ==
    /\ Contracts \in Configs
    /\ LoadedOnce
    /\ BlockBatchSize \in { -1, 0, 1 }
    /\ RPCEndpoint = "http"
    /\ proc = "down"
    /\ cancelled = FALSE
    /\ rpcClient = "none"
    /\ kills = 0
    /\ sync_states = {}
    /\ tables = [k \in Kinds |-> {}]
    /\ unit = [n \in Names |-> NoUnit]
    /\ hist = [n \in Names |-> NoHist]
    /\ plog = NoLog
    /\ paddr = << >>
    /\ pres = Err("")

SpecUnvalidated == InitUnvalidated /\ [][NextRunning]_vars

(***************************************************************************)
(* Two units: both contracts are configured, RunIndexer starts one         *)
(* goroutine for each, and their steps interleave.                         *)
(***************************************************************************)
InitPair ==
    /\ Contracts = BothContracts
    /\ LoadedOnce
    /\ BlockBatchSize \in { 1, MaxBatch }
    /\ RPCEndpoint = "http"
    /\ proc = "down"
    /\ cancelled = FALSE
    /\ rpcClient = "none"
    /\ kills = 0
    /\ sync_states = {}
    /\ tables = [k \in Kinds |-> {}]
    /\ unit = [n \in Names |-> NoUnit]
    /\ hist = [n \in Names |-> NoHist]
    /\ plog = NoLog
    /\ paddr = << >>
    /\ pres = Err("")

\* What is explored for two units: chain heights below MaxHeight, and block
\* timestamps that are always served (no entity carries the wall clock).
PairScope ==
    /\ \A n \in Names : unit[n].latestBlock < MaxHeight
    /\ \A k \in Kinds : \A r \in tables[k] :
          \E b \in 1..MaxHeight : r.BlockTimestamp = SetUint64(BlockTime(b))

NextPair ==
    /\ \/ Main
       \/ \E n \in Names : Spawn(n)
       \/ Return
       \/ \E n \in Names : FetchingCursor(n)
       \/ \E n \in Names : FetchingHeight(n)
       \/ \E n \in Names : ProcessBlockRange(n)
       \/ \E n \in Names : ParseLogs(n)
       \/ \E n \in Names : StoreEntities(n)
       \/ \E n \in Names : AdvancingCursor(n)
       \/ \E n \in Names : Wake(n)
    /\ PairScope'

SpecPair == InitPair /\ [][NextPair]_vars

(***************************************************************************)
(* Properties of the synchronisation loop.                                 *)
(***************************************************************************)
AddressOf(n) == ContractNamed(n).Address
\* The unit is inside processBlockRange.
Ranging(u) == u.pc \in { "range", "logs", "store" }
Min(a, b) == IF a < b THEN a ELSE b

\* What the loop decodes from the logs of block b of an address when the
\* header of the block could be fetched.
ResultsOf(address, b) ==
    ParsedLogs[WhizyPredictionMarketContract.Address][ProtocolSelectorContract.Address]
              [address][b][BlockTime(b)]

\* The entity is stored: its table holds a row with its identifier that
\* differs from it at most in the timestamp taken for block b.
IsStored(e, b) ==
    \E r \in tables[e.Kind] :
        /\ r.ID = e.ID
        /\ \E t \in TimesOf(b) : r = [e EXCEPT !.BlockTimestamp = SetUint64(t)]

\* Every log of the address in blocks lo..hi that decodes has its entity
\* stored.
AllStored(address, lo, hi) ==
    \A b \in lo..hi : \A i \in 1..Len(ResultsOf(address, b)) :
        ResultsOf(address, b)[i].status = "ok"
            => IsStored(ResultsOf(address, b)[i].entity, b)

\* Some row of some table belongs to a block of lo..hi.
SomeRowIn(lo, hi) ==
    \E k \in Kinds : \E r \in tables[k] : \E b \in lo..hi : r.BlockNumber = SetUint64(b)

\* C1 (at-least-once delivery): in every reachable state, for every
\* configured contract and every block above its start block and up to its
\* stored cursor, every log of the contract in that block that decodes has
\* a row in the table of its kind.
C1_AtLeastOnce ==
    \A c \in Contracts : AllStored(c.Address, c.StartBlock + 1, Cursor(c.Address))

\* The cursor has moved at least two blocks past the start block, over
\* blocks with rows, in a process that was killed and started again.
C1_Witness ==
    \E c \in Contracts :
        /\ kills > 0
        /\ Cursor(c.Address) >= c.StartBlock + 2
        /\ SomeRowIn(c.StartBlock + 1, Cursor(c.Address))

\* C2 (cursor monotonicity): no step decreases the stored cursor of a
\* contract, and once a cycle has succeeded the cursor is the highest
\* toBlock of the successful cycles; this includes cycles in which the
\* reported height is below the cursor.
C2_CursorMonotone ==
    [][\A c \in Contracts :
          /\ Cursor(c.Address)' >= Cursor(c.Address)
          /\ hist'[c.Name].maxTo # -1 => Cursor(c.Address)' = hist'[c.Name].maxTo]_vars

\* With a positive blockBatchSize no step decreases the stored cursor, and
\* the cursor is the highest toBlock of the successful cycles.
C2_MonotoneWhenPositive ==
    [][BlockBatchSize >= 1
       => \A c \in Contracts :
             /\ Cursor(c.Address)' >= Cursor(c.Address)
             /\ hist'[c.Name].maxTo # -1
                  => Cursor(c.Address)' = hist'[c.Name].maxTo]_vars

\* A cycle has observed a height below the cursor it had advanced earlier.
C2_Witness ==
    \E n \in Names :
        /\ unit[n].pc = "sleep"
        /\ unit[n].latestBlock >= 1
        /\ unit[n].latestBlock < Cursor(AddressOf(n))
        /\ hist[n].maxTo = Cursor(AddressOf(n))

\* C3 (crash-resume equivalence): when the process died after a range was
\* stored and before its cursor was saved, processing that range again
\* after the restart changes no table, and the save that follows sets the
\* cursor to the range's toBlock: the stored state is the one the
\* uninterrupted run would have left.
C3_CrashResume ==
    [][\A n \in Names :
          (/\ hist[n].crashed # NoCrash
           /\ unit[n].fromBlock = hist[n].crashed.fromBlock
           /\ unit[n].toBlock = hist[n].crashed.toBlock)
          => /\ Ranging(unit[n]) => tables' = tables
             /\ (unit[n].pc = "save" /\ unit'[n].pc = "sleep" /\ unit'[n].sleep = 100)
                  => /\ tables' = tables
                     /\ Cursor(AddressOf(n))' = hist[n].crashed.toBlock]_vars

\* The range of the interrupted cycle has been processed again after the
\* restart and its cursor saved.
C3_Witness ==
    \E n \in Names :
        /\ kills > 0
        /\ hist[n].crashed # NoCrash
        /\ unit[n].pc = "sleep" /\ unit[n].sleep = 100
        /\ unit[n].fromBlock = hist[n].crashed.fromBlock
        /\ Cursor(AddressOf(n)) = hist[n].crashed.toBlock
        /\ SomeRowIn(hist[n].crashed.fromBlock, hist[n].crashed.toBlock)

\* C4 (idempotent storage): no step removes or modifies a stored row, and a
\* table never holds two rows with the same identifier; so inserting an
\* entity whose identifier is stored keeps the first row as it is.
C4_IdempotentStorage ==
    [][\A k \in Kinds :
          /\ tables[k] \subseteq tables'[k]
          /\ \A r1, r2 \in tables'[k] : r1.ID = r2.ID => r1 = r2]_vars

\* storeEntities returned success for a batch with an entity whose
\* identifier was stored with other field values.
C4_Witness ==
    \E n \in Names : hist[n].overlaid /\ unit[n].pc = "save"

\* C5 (write failure leaves the cursor unchanged): from the failure of
\* storeEntities in a cycle until the range is processed successfully, the
\* stored cursor is the one the failed cycle read (its fromBlock - 1), and a
\* range computed in between starts at the same fromBlock.
C5_WriteFailureKeepsCursor ==
    \A n \in Names :
        hist[n].lastFail.step = "store"
        => /\ Cursor(AddressOf(n)) + 1 = hist[n].lastFail.fromBlock
           /\ (Ranging(unit[n]) \/ unit[n].pc = "save")
                => unit[n].fromBlock = hist[n].lastFail.fromBlock

\* The cycle after a failed store has computed its range.
C5_Witness ==
    \E n \in Names : hist[n].lastFail.step = "store" /\ unit[n].pc = "range"

\* C7 (unknown signature tolerance): decoding a batch never ends the
\* process, and once processBlockRange has returned success every log of
\* the range that decodes is stored.
C7_DecodeFailureSkipped ==
    /\ proc # "panicked"
    /\ \A n \in Names :
          unit[n].pc = "save"
              => AllStored(AddressOf(n), unit[n].fromBlock, unit[n].toBlock)

C9_GapFree ==
    [][\A n \in Names :
          (unit[n].pc = "save" /\ unit'[n].pc = "sleep" /\ unit'[n].sleep = 100)
          => /\ unit[n].fromBlock <= unit[n].toBlock
             /\ hist[n].prevTo # -1 => unit[n].fromBlock = hist[n].prevTo + 1
             /\ hist'[n].prevTo = unit[n].toBlock]_vars

\* With a positive blockBatchSize a cycle that completes has a non-empty
\* range that starts one block above the previous completed cycle's toBlock.
C9_GapFreeWhenPositive ==
    [][BlockBatchSize >= 1
       => \A n \in Names :
             (unit[n].pc = "save" /\ unit'[n].pc = "sleep" /\ unit'[n].sleep = 100)
             => /\ unit[n].fromBlock <= unit[n].toBlock
                /\ hist[n].prevTo # -1 => unit[n].fromBlock = hist[n].prevTo + 1
                /\ hist'[n].prevTo = unit[n].toBlock]_vars

\* A second cycle has completed, on the range that follows the first.
C9_Witness ==
    \E n \in Names :
        /\ unit[n].pc = "sleep" /\ unit[n].sleep = 100
        /\ hist[n].prevTo = unit[n].toBlock
        /\ unit[n].fromBlock >= ContractNamed(n).StartBlock + 2

\* C10 as stated (retried in place): after db.Save failed, until the next
\* save attempt, no logs are fetched and no table changes.
C10_RetriedInPlace ==
    [][\A n \in Names :
          hist[n].lastFail.step = "save"
          => /\ ~(unit[n].pc = "range" /\ unit'[n].pc \in { "logs", "save", "sleep" })
             /\ tables' = tables]_vars

\* C10 (cursor persistence failure, as the loop does it): after db.Save
\* failed the stored cursor is the one the cycle read, and the loop starts
\* the cycle again: the range it computes next starts at the same
\* fromBlock and is fetched and stored again.
C10_CycleRestarts ==
    \A n \in Names :
        hist[n].lastFail.step = "save"
        => /\ Cursor(AddressOf(n)) + 1 = hist[n].lastFail.fromBlock
           /\ unit[n].pc = "range" => unit[n].fromBlock = hist[n].lastFail.fromBlock

\* After a failed save the loop is about to fetch logs again, for a range
\* with another upper bound.
C10_Witness ==
    \E n \in Names :
        /\ hist[n].lastFail.step = "save"
        /\ unit[n].pc = "range"
        /\ unit[n].toBlock # hist[n].lastFail.toBlock

\* C11 as stated (log fetch failure retries the same range): after GetLogs
\* failed for [from, to] the cursor is unchanged and the next GetLogs call
\* of the unit is for [from, to] again, whatever the chain height is then.
C11_SameRange ==
    \A n \in Names :
        hist[n].lastFail.step = "logs"
        => /\ Cursor(AddressOf(n)) + 1 = hist[n].lastFail.fromBlock
           /\ unit[n].pc = "range"
              => /\ unit[n].fromBlock = hist[n].lastFail.fromBlock
                 /\ unit[n].toBlock = hist[n].lastFail.toBlock

\* C11 (log fetch failure, as the loop does it): after GetLogs failed the
\* cursor is unchanged, and the next GetLogs call of the unit starts at the
\* same fromBlock; its toBlock is computed again from the height read in
\* that cycle: min(fromBlock + batchSize - 1, latestHeight), or latestHeight
\* when fromBlock + batchSize - 1 is negative (the unsigned sum wraps).
C11_SameStart ==
    \A n \in Names :
        hist[n].lastFail.step = "logs"
        => /\ Cursor(AddressOf(n)) + 1 = hist[n].lastFail.fromBlock
           /\ (Ranging(unit[n]) \/ unit[n].pc = "save")
              => /\ unit[n].fromBlock = hist[n].lastFail.fromBlock
                 /\ unit[n].toBlock =
                       IF unit[n].fromBlock + BlockBatchSize - 1 < 0
                       THEN unit[n].latestBlock
                       ELSE Min(unit[n].fromBlock + BlockBatchSize - 1,
                                unit[n].latestBlock)

\* GetLogs failed for a range cut short by the chain height, the height has
\* grown since, and the unit is about to fetch a longer range.
C11_Witness ==
    \E n \in Names :
        /\ hist[n].lastFail.step = "logs"
        /\ unit[n].pc = "range"
        /\ unit[n].fromBlock = hist[n].lastFail.fromBlock
        /\ unit[n].toBlock > hist[n].lastFail.toBlock

\* The units that were started have all returned from indexContract.
AllStopped ==
    /\ proc = "up"
    /\ \A n \in Names : unit[n].pc = "stopped"

\* C12 (shutdown liveness): once the cancellation signal is raised, every
\* contract unit eventually reaches Stopped, whatever step it was in.
C12_ShutdownLiveness == (cancelled /\ rpcClient # "none") ~> AllStopped

\* C13 (no progress after cancellation): once the cancellation signal is
\* raised, no unit inserts an entity and no unit updates a cursor.
C13_NoProgressAfterCancel ==
    [][cancelled => tables' = tables /\ sync_states' = sync_states]_vars

\* C14 (unit independence): the sync state a unit holds is the record of
\* its own contract address; while the process runs the cursor record of a
\* contract changes only in a step of that contract's own unit, and its
\* value is what that unit saved last (the start block before its first
\* save), whatever the other units do and however they fail.
C14_UnitIndependence ==
    [][\A m \in Names :
          /\ unit'[m].state # NoState
             => unit'[m].state.ContractAddress = AddressOf(m)
          /\ proc = "up" /\ unit'[m] = unit[m]
             => SyncStateOf(AddressOf(m))' = SyncStateOf(AddressOf(m))
          /\ Cursor(AddressOf(m))' =
                IF hist'[m].prevTo = -1 THEN ContractNamed(m).StartBlock
                ELSE hist'[m].prevTo]_vars

\* One unit has failed in every cycle and never saved a cursor, while the
\* other unit has advanced its own cursor to the height it read.
C14_Witness ==
    \E a \in Names, b \in Names :
        /\ a # b
        /\ hist[a].lastFail.step # "none"
        /\ hist[a].maxTo = -1
        /\ Cursor(AddressOf(a)) = ContractNamed(a).StartBlock
        /\ hist[b].prevTo = MaxHeight - 1
        /\ Cursor(AddressOf(b)) = MaxHeight - 1

\* C18 (cursor creation): no step deletes a cursor; the initialization at
\* process start leaves every existing cursor as it is and creates cursors
\* only for configured contracts that have none, seeded with the configured
\* start block.
C18_CursorCreation ==
    [][/\ \A r \in sync_states :
            \E q \in sync_states' : q.ContractAddress = r.ContractAddress
       /\ proc # "up"
          => /\ sync_states \subseteq sync_states'
             /\ \A q \in sync_states' \ sync_states :
                  /\ SyncStateOf(q.ContractAddress) = {}
                  /\ \E c \in Contracts :
                       /\ q.ContractAddress = c.Address
                       /\ q.ContractName = c.Name
                       /\ q.LastBlock = c.StartBlock]_vars

\* The process was started again after its unit had advanced the cursor
\* beyond the start block, and the cursor is the one the unit saved.
C18_Witness ==
    /\ kills > 0
    /\ proc = "up"
    /\ \E n \in Names :
         /\ unit[n].pc = "top"
         /\ hist[n].prevTo > ContractNamed(n).StartBlock
         /\ Cursor(AddressOf(n)) = hist[n].prevTo

\* C20 (only cancellation stops a unit): a unit has returned from
\* indexContract only if the cancellation signal was raised, and no failure
\* or malformed log has crashed the process.
C20_OnlyCancellationStops ==
    /\ \A n \in Names : unit[n].pc = "stopped" => cancelled
    /\ proc # "panicked"

\* The entities of kind k that the logs of the address in blocks lo..hi
\* decode to are all stored.
KindStored(address, lo, hi, k) ==
    \A b \in lo..hi : \A i \in 1..Len(ResultsOf(address, b)) :
        LET r == ResultsOf(address, b)[i]
        IN  r.status = "ok" /\ r.entity.Kind = k => IsStored(r.entity, b)

\* Some log of the address in blocks lo..hi decodes to an entity of kind k.
KindIn(address, lo, hi, k) ==
    \E b \in lo..hi : \E i \in 1..Len(ResultsOf(address, b)) :
        LET r == ResultsOf(address, b)[i]
        IN  r.status = "ok" /\ r.entity.Kind = k

\* The entity has a row with its identifier in the table of its kind.
HasRow(tabs, e) == \E r \in tabs[e.Kind] : r.ID = e.ID

\* C21 (per-kind writes): every insert of storeEntities writes the table of
\* one kind only and never the cursor.  When an insert fails, the tables are
\* as they were before it: the batches of the kinds before it in the fixed
\* order stay stored, the failing kind's and the later kinds' batches are
\* not written, and the unit waits the backoff interval.  When the last
\* insert succeeds, the batches of all kinds of the range are stored.
C21_PerKindWrites ==
    [][\A n \in Names :
          LET u == unit[n]
              a == AddressOf(n)
          IN  (u.pc = "store" /\ unit'[n] # u /\ unit'[n].pc # "none")
              => /\ sync_states' = sync_states
                 /\ \A j \in 1..Len(KindOrder) :
                      j # u.kind => tables'[KindOrder[j]] = tables[KindOrder[j]]
                 /\ unit'[n].pc = "sleep"
                    => /\ tables' = tables
                       /\ unit'[n].sleep = 5000
                       /\ hist'[n].lastFail.step = "store"
                       /\ hist'[n].failKind = KindOrder[u.kind]
                       /\ \A i \in 1..Len(u.entities) :
                            (\E j \in 1..(u.kind - 1) : u.entities[i].Kind = KindOrder[j])
                            => HasRow(tables', u.entities[i])
                 /\ unit'[n].pc # "sleep"
                    => \A i \in 1..Len(u.entities) :
                         u.entities[i].Kind = KindOrder[u.kind]
                         => HasRow(tables', u.entities[i])
                 /\ unit'[n].pc = "save"
                    => \A k \in Kinds : KindStored(a, u.fromBlock, u.toBlock, k)']_vars

\* storeEntities failed at the batch of a kind after the first one of the
\* range: an earlier kind's entities of the range are stored, a later
\* kind's are not.
C21_Witness ==
    \E n \in Names : \E i \in 1..Len(KindOrder), j \in 1..Len(KindOrder) :
        LET a == AddressOf(n)
            f == hist[n].lastFail
        IN  /\ f.step = "store"
            /\ unit[n].pc = "sleep"
            /\ i < j
            /\ hist[n].failKind = KindOrder[j]
            /\ KindIn(a, f.fromBlock, f.toBlock, KindOrder[i])
            /\ KindIn(a, f.fromBlock, f.toBlock, KindOrder[j])
            /\ KindStored(a, f.fromBlock, f.toBlock, KindOrder[i])
            /\ tables[KindOrder[j]] = {}

\* The rows a step adds to the tables.
Inserted == UNION { tables'[k] \ tables[k] : k \in Kinds }

\* The block of the log the loop of unit n is at comes first at that log.
FirstOfBlock(n) ==
    LET u == unit[n]
        logs == FetchedLogs[AddressOf(n)][u.fromBlock][u.toBlock]
    IN  \A j \in 1..(u.next - 1) : logs[j].BlockNumber # logs[u.next].BlockNumber

\* C22 (timestamp resolution within a batch): blockTimestamps is empty when
\* the loop over a batch's logs starts.  An iteration calls
\* GetBlockWithTimestamp exactly when its log is the first of its block in
\* the batch, so at most once per block, and then puts the header's time or
\* the wall clock into blockTimestamps; the loop goes on in both cases (it
\* leaves only to storeEntities, to the cursor save, or by the end of the
\* process).  Other iterations leave blockTimestamps as it is.  Every
\* entity of the batch carries the timestamp cached for its block, so
\* entities of one block carry the same one; and the rows a step inserts
\* are entities of the batch of a unit.
C22_OneTimestampPerBlock ==
    [][/\ \A n \in Names :
            LET u == unit[n]
                v == unit'[n]
                b == FetchedLogs[AddressOf(n)][u.fromBlock][u.toBlock][u.next].BlockNumber
            IN  /\ (u.pc = "range" /\ v.pc = "logs")
                     => v.blockTimestamps = {} /\ hist'[n].headers = << >>
                /\ (u.pc = "logs" /\ v # u)
                     => /\ v.pc \in { "logs", "store", "save", "none" }
                        /\ (v.pc # "none" /\ FirstOfBlock(n))
                             => hist'[n].headers = Append(hist[n].headers, b)
                        /\ (v.pc # "none" /\ ~FirstOfBlock(n))
                             => hist'[n].headers = hist[n].headers
                        /\ (v.pc \in { "logs", "store" } /\ FirstOfBlock(n))
                             => \E t \in TimesOf(b) :
                                   /\ t = BlockTime(b) => RpcUsable
                                   /\ v.blockTimestamps =
                                         u.blockTimestamps \cup { << b, t >> }
                        /\ (v.pc \in { "logs", "store" } /\ ~FirstOfBlock(n))
                             => v.blockTimestamps = u.blockTimestamps
                /\ v.pc \in { "logs", "store" }
                     => /\ \A i, j \in 1..Len(hist'[n].headers) :
                             hist'[n].headers[i] = hist'[n].headers[j] => i = j
                        /\ \A p, q \in v.blockTimestamps : p[1] = q[1] => p = q
                        /\ \A i \in 1..Len(v.entities) : \E p \in v.blockTimestamps :
                             /\ v.entities[i].BlockNumber = SetUint64(p[1])
                             /\ v.entities[i].BlockTimestamp = SetUint64(p[2])
                        /\ \A i, j \in 1..Len(v.entities) :
                             v.entities[i].BlockNumber = v.entities[j].BlockNumber
                             => v.entities[i].BlockTimestamp = v.entities[j].BlockTimestamp
       /\ \A r \in Inserted :
            \E n \in Names : \E i \in 1..Len(unit[n].entities) :
                unit[n].pc = "store" /\ unit[n].entities[i] = r]_vars

\* A batch is past its loop over three logs of one block: the header was
\* asked for once, at the first log (which did not decode), the call
\* failed, and the two entities decoded from the other logs carry the wall
\* clock read then; the tables hold a row of that block, stored by an
\* earlier batch, with the header's time.
C22_Witness ==
    \E n \in Names : \E i, j \in 1..Len(unit[n].entities) :
        LET e == unit[n].entities[i]
            f == unit[n].entities[j]
            logs == FetchedLogs[AddressOf(n)][unit[n].fromBlock][unit[n].toBlock]
        IN  /\ unit[n].pc = "store"
            /\ Len(logs) = 3
            /\ Len(hist[n].headers) = 1
            /\ i # j
            /\ e.BlockNumber = f.BlockNumber
            /\ \E t \in WallClocks : unit[n].blockTimestamps = { << logs[1].BlockNumber, t >> }
            /\ \E k \in Kinds : \E r \in tables[k] :
                  /\ r.BlockNumber = e.BlockNumber
                  /\ \E x \in 1..MaxHeight : r.BlockTimestamp = SetUint64(BlockTime(x))

\* C23 (idle when caught up): a unit is about to fetch logs or to save the
\* cursor only in a cycle whose cursor is below the height it read; a cycle
\* that ends after the height was read changes neither the tables nor the
\* cursor and waits the idle interval, and after a wait the unit is back at
\* the top of the loop, where it reads the cursor.
C23_IdleWhenCaughtUp ==
    [][\A n \in Names :
          /\ (Ranging(unit'[n]) \/ unit'[n].pc = "save")
             => unit'[n].state.LastBlock < unit'[n].latestBlock
          /\ unit[n].pc = "height" /\ unit'[n].pc \notin { "height", "range", "none" }
             => /\ unit'[n].pc = "sleep"
                /\ unit'[n].sleep = 5000
                /\ tables' = tables
                /\ sync_states' = sync_states
          /\ unit[n].pc = "sleep" /\ unit'[n].pc \notin { "sleep", "none" }
             => unit'[n] = [NoUnit EXCEPT !.pc = "top"]]_vars

\* A unit that advanced its cursor itself read a lower, non-zero height in
\* a later cycle and idles, the cursor as it was.
C23_Witness ==
    \E n \in Names :
        /\ unit[n].pc = "sleep"
        /\ unit[n].sleep = 5000
        /\ unit[n].latestBlock >= 1
        /\ unit[n].state.LastBlock > unit[n].latestBlock
        /\ hist[n].prevTo = unit[n].state.LastBlock
        /\ Cursor(AddressOf(n)) = unit[n].state.LastBlock
        /\ hist[n].lastFail = NoFail

\* The step of unit n went the way of success: the cursor was read (or the
\* signal seen), the height was read (caught up or not), the logs were
\* fetched, the logs of a block decoded, a batch inserted, the cursor saved.
StepSucceeded(n) ==
    \/ unit[n].pc = "top" /\ unit'[n].pc \in { "height", "stopped" }
    \/ unit[n].pc = "height"
         /\ \/ unit'[n].pc = "range"
            \/ /\ unit'[n].pc = "sleep"
               /\ unit'[n].latestBlock # NoUnit.latestBlock
               /\ CaughtUp(unit[n].state.LastBlock, unit'[n].latestBlock)
    \/ unit[n].pc = "range" /\ unit'[n].pc \in { "logs", "save" }
    \/ unit[n].pc = "logs" /\ unit'[n].pc \in { "logs", "store", "save" }
    \/ unit[n].pc = "store" /\ unit'[n].pc \in { "store", "save" }
    \/ unit[n].pc = "save" /\ unit'[n].pc = "sleep" /\ unit'[n].sleep = 100

\* C25 (fixed-interval retry): a step of a unit (cursor read, height fetch,
\* range processing, cursor save) that does not succeed is followed by a
\* wait of the one backoff interval, whatever happened before, and leaves
\* the process and the unit running.
C25_FixedBackoff ==
    [][\A n \in Names :
         (/\ unit[n].pc \in { "top", "height", "range", "logs", "store", "save" }
          /\ unit'[n] # unit[n]
          /\ kills' = kills
          /\ ~StepSucceeded(n))
         => /\ proc' = "up"
            /\ unit'[n].pc = "sleep"
            /\ unit'[n].sleep = 5000]_vars

\* The same for the failures the loop is told of: every step but the one in
\* which the decoder panics.
C25_ErrorsBackOff ==
    [][\A n \in Names :
         (/\ unit[n].pc \in { "top", "height", "range", "logs", "store", "save" }
          /\ unit'[n] # unit[n]
          /\ kills' = kills
          /\ proc' # "panicked"
          /\ ~StepSucceeded(n))
         => /\ proc' = "up"
            /\ unit'[n].pc = "sleep"
            /\ unit'[n].sleep = 5000]_vars

\* C27 (strict progress per cycle): for every batch size the configuration
\* can supply, a cycle that completes (its cursor is saved) has fetched a
\* non-empty range and leaves the stored cursor strictly greater than
\* before.
C27_StrictProgress ==
    [][\A n \in Names :
          (unit[n].pc = "save" /\ unit'[n].pc = "sleep" /\ unit'[n].sleep = 100)
          => /\ unit[n].fromBlock <= unit[n].toBlock
             /\ Cursor(AddressOf(n))' > Cursor(AddressOf(n))]_vars

\* The same for the batch sizes from 1 on.
C27_ProgressWhenPositive ==
    [][\A n \in Names :
          (/\ BlockBatchSize >= 1
           /\ unit[n].pc = "save" /\ unit'[n].pc = "sleep" /\ unit'[n].sleep = 100)
          => /\ unit[n].fromBlock <= unit[n].toBlock
             /\ Cursor(AddressOf(n))' > Cursor(AddressOf(n))]_vars

\* Nothing is failing for the units: the signal is not raised, every height
\* read is the chain's height, and no unit is in the wait that follows a
\* failed call (a 5 s wait is that of a caught-up unit).
Calm ==
    /\ ~cancelled
    /\ \A n \in Names :
         (Ranging(unit[n]) \/ unit[n].pc \in { "save", "sleep" })
         => /\ unit[n].latestBlock = MaxHeight
            /\ (unit[n].pc = "sleep" /\ unit[n].sleep = 5000)
                 => Cursor(AddressOf(n)) >= MaxHeight

\* The units have been started.
Started == \E n \in Names : unit[n].pc # "none"

\* Every stored cursor is at the chain's height.
AtHeight == \A c \in Contracts : Cursor(c.Address) = MaxHeight

\* C28 (catch-up liveness): when the units have been started and from some
\* point on there is no cancellation, the height stays at MaxHeight and
\* every call succeeds, the stored cursor eventually equals MaxHeight and
\* stays there.
C28_CatchUp == (<>Started /\ <>[]Calm) => <>[]AtHeight

\* The same for the behaviours in which the decoder does not panic and the
\* configured blockBatchSize is positive.
C28_CatchUpUnlessPanic ==
    (<>Started /\ <>[]Calm /\ [](proc # "panicked" /\ BlockBatchSize >= 1))
        => <>[]AtHeight

\* C29 (RPC client lifetime): while a unit started by RunIndexer is running,
\* Close has not been called on the RPC client the units share.
C29_ClientOutlivesUnits ==
    (\E n \in Names : unit[n].pc \notin { "none", "stopped" })
    => rpcClient # "closed"

\* C30 (coverage starts at the start block): while no cycle of a contract
\* has completed, so that its cursor is the one seeded from the start
\* block, the range the unit requests begins at the start block.
C30_CoverageFromStart ==
    \A n \in Names :
        (unit[n].pc = "range" /\ hist[n].maxTo = -1)
        => unit[n].fromBlock = ContractNamed(n).StartBlock

\* The first range begins one block above the start block.
C30_FirstRangeAboveStart ==
    \A n \in Names :
        (unit[n].pc = "range" /\ hist[n].maxTo = -1)
        => unit[n].fromBlock = ContractNamed(n).StartBlock + 1

(***************************************************************************)
(* The decoder alone: ParseLog applied to logs that carry a dynamic        *)
(* string, for head and length words over the whole 256-bit range.         *)
(***************************************************************************)
\* A 32-byte word above 2^64 whose low 64 bits are n.
WordAbove64(n) == Zeros(23) \o << 1 >> \o Zeros(8 - Len(NatBytes(n))) \o NatBytes(n)
\* The largest 32-byte word.
WordMax == [i \in 1..32 |-> 255]

\* Head words naming where the string starts, for a head of `head` bytes.
OffsetWords(head) ==
    { WordOfNat(0), WordOfNat(32), WordOfNat(head), WordOfNat(head + 1),
      WordOfNat(head + 32), WordTwo64Minus(33), WordTwo64Minus(32),
      WordTwo64Minus(1), WordAbove64(head), WordMax }

\* Length words of the string, for a head of `head` bytes.
LengthWords(head) ==
    { WordOfNat(0), WordOfNat(1), WordOfNat(MaxPayload), WordOfNat(MaxPayload + 1),
      WordTwo64Minus(head + 32), WordTwo64Minus(1), WordAbove64(1), WordMax }

\* The bytes of a string of n characters.
Payload(n) == [i \in 1..n |-> 64 + i]

MarketCreatedShaped ==
    { Log(<< MarketCreatedSignature, WordOfNat(7) >>,
          off \o WordOfNat(1800000000) \o AddressWord(187) \o AddressWord(204)
              \o len \o Payload(k), 1, 0) :
        off \in OffsetWords(128), len \in LengthWords(128), k \in 0..MaxPayload }

ProtocolRegisteredShaped ==
    { Log(<< ProtocolRegisteredSignature, WordOfNat(3), AddressWord(221) >>,
          off \o WordOfNat(1) \o len \o Payload(k), 1, 0) :
        off \in OffsetWords(64), len \in LengthWords(64), k \in 0..MaxPayload }

\* The value pres holds before ParseLog has been applied to plog.
NotParsed == [status |-> "none", entity |-> NoEntity, err |-> ""]

\* A log of one of the two shapes arrives from its contract.
Arrives(log, address) ==
    /\ plog' = log
    /\ paddr' = address
    /\ pres' = NotParsed

InitParse ==
    /\ Contracts = BothContracts
    /\ LoadedOnce
    /\ BlockBatchSize = 1
    /\ RPCEndpoint = "http"
    /\ proc = "up"
    /\ cancelled = FALSE
    /\ rpcClient = "closed"
    /\ kills = 0
    /\ sync_states = {}
    /\ tables = [k \in Kinds |-> {}]
    /\ unit = [n \in Names |-> NoUnit]
    /\ hist = [n \in Names |-> NoHist]
    /\ \/ plog \in MarketCreatedShaped /\ paddr = WhizyAddress
       \/ plog \in ProtocolRegisteredShaped /\ paddr = ProtocolSelectorAddress
    /\ pres = NotParsed

\* entity, err := ParseLog(log, contract.Address, blockTimestamp)
Decode ==
    /\ pres = NotParsed
    /\ pres' = ParseLog(plog, paddr, BlockTime(plog.BlockNumber))
    /\ UNCHANGED << Contracts, named, BlockBatchSize, proc, cancelled, sync_states, tables,
                    unit, rpcClient, RPCEndpoint, kills, hist, plog, paddr >>

\* The loop over the logs moves on to the next log, unless the decoder
\* panicked.
Feed ==
    /\ pres.status \in { "ok", "error" }
    /\ \/ \E log \in MarketCreatedShaped : Arrives(log, WhizyAddress)
       \/ \E log \in ProtocolRegisteredShaped : Arrives(log, ProtocolSelectorAddress)
    /\ UNCHANGED << Contracts, named, BlockBatchSize, proc, cancelled, sync_states, tables,
                    unit, rpcClient, RPCEndpoint, kills, hist >>

NextParse == Decode \/ Feed

SpecParse == InitParse /\ [][NextParse]_vars

(***************************************************************************)
(* The catalog: ParseLog applied to logs of every signature, with every    *)
(* number of topics, under the addresses of both roles (in the letter case  *)
(* of the configuration and in lower case), under an address of neither    *)
(* role and under the empty string, at both timestamps a block can get.    *)
(***************************************************************************)
\* The signatures ParseLog tests under the prediction-market address.
WhizySignatures ==
    { BetPlacedSignature, MarketCreatedSignature, MarketResolvedSignature,
      WinningsClaimedSignature }

\* The signatures ParseLog tests under the protocol-selector address.
SelectorSignatures ==
    { AutoDepositExecutedSignature, AutoWithdrawExecutedSignature,
      OwnershipTransferredSignature, PausedSignature, ProtocolRegisteredSignature,
      ProtocolUpdatedSignature, UnpausedSignature }

\* strings.ToLower of an address.
Lower(address) == [i \in 1..Len(address) |-> FoldChar(address[i])]

\* An address that belongs to neither role.
OtherAddress == [Lower(WhizyAddress) EXCEPT ![42] = "6"]

CatalogAddresses ==
    { WhizyAddress, Lower(WhizyAddress), ProtocolSelectorAddress,
      Lower(ProtocolSelectorAddress), OtherAddress, << >> }

\* Logs of every signature (and of one that is in no catalog) with 0 to 3
\* topics, without data and with three words of data, in two transactions
\* and at three log indexes.
CatalogShaped ==
    { [Topics |-> SubSeq(<< sig, WordOfNat(7), AddressWord(170) >>, 1, k),
       Data |-> data, BlockNumber |-> b, TxHash |-> Hash32(b), Index |-> i] :
        sig \in WhizySignatures \cup SelectorSignatures \cup { TransferSignature },
        k \in 0..3,
        data \in { << >>, WordOfNat(1) \o WordOfNat(100) \o WordOfNat(50) },
        b \in { 1, 11 }, i \in { 0, 1, 11 } }

\* A topic whose high 12 bytes are not zero, over the address of byte b.
DirtyAddressWord(b) == [i \in 1..12 |-> 255] \o [i \in 1..20 |-> b]

\* BetPlaced logs: market ids and amounts over the whole 256-bit range,
\* data of 95, 96 and 128 bytes.
BetPlacedShaped ==
    { Log(<< BetPlacedSignature, market, user >>,
          SubSeq(position \o amount \o shares \o WordOfNat(9), 1, n), 1, 0) :
        market \in { WordOfNat(0), WordOfNat(7), WordAbove64(5), WordMax },
        user \in { AddressWord(170), AddressWord(17), DirtyAddressWord(187) },
        position \in { WordOfNat(0), WordOfNat(1), WordAbove64(0) },
        amount \in { WordOfNat(100), WordMax },
        shares \in { WordOfNat(50), WordOfNat(0) },
        n \in { 95, 96, 128 } }

\* Logs of every event that has data, with all their topics and the first
\* n bytes of four non-zero words, for n around every decoder's minimum.
ShortShaped ==
    { Log(<< sig, WordOfNat(7), AddressWord(170) >>,
          SubSeq(WordOfNat(1) \o WordOfNat(100) \o WordOfNat(50) \o AddressWord(187),
                 1, n), 1, 0) :
        sig \in (WhizySignatures \cup SelectorSignatures)
                   \ { OwnershipTransferredSignature },
        n \in { 1, 31, 32, 63, 64, 95, 127 } }

InitCatalog ==
    /\ Contracts = BothContracts
    /\ LoadedOnce
    /\ BlockBatchSize = 1
    /\ RPCEndpoint = "http"
    /\ proc = "up"
    /\ cancelled = FALSE
    /\ rpcClient = "closed"
    /\ kills = 0
    /\ sync_states = {}
    /\ tables = [k \in Kinds |-> {}]
    /\ unit = [n \in Names |-> NoUnit]
    /\ hist = [n \in Names |-> NoHist]
    /\ \/ plog \in CatalogShaped /\ paddr \in CatalogAddresses
       \/ plog \in BetPlacedShaped /\ paddr \in { WhizyAddress, Lower(WhizyAddress) }
       \/ plog \in ShortShaped /\ paddr \in { WhizyAddress, ProtocolSelectorAddress }
    /\ pres = NotParsed

\* entity, err := ParseLog(log, contract.Address, blockTimestamp), with the
\* timestamp of the block or the wall clock.
DecodeAt ==
    /\ pres = NotParsed
    /\ \E t \in TimesOf(plog.BlockNumber) : pres' = ParseLog(plog, paddr, t)
    /\ UNCHANGED << Contracts, named, BlockBatchSize, proc, cancelled, sync_states, tables,
                    unit, rpcClient, RPCEndpoint, kills, hist, plog, paddr >>

\* The next log index of a transaction, among the indexes explored.
NextIndex(i) == IF i = 0 THEN 1 ELSE IF i = 1 THEN 11 ELSE 0

\* The loop over the logs moves on to the next log of the same transaction
\* and contract.
Deliver ==
    /\ pres.status \in { "ok", "error" }
    /\ \E log \in CatalogShaped :
         /\ log.TxHash = plog.TxHash
         /\ log.Index = NextIndex(plog.Index)
         /\ Arrives(log, paddr)
    /\ UNCHANGED << Contracts, named, BlockBatchSize, proc, cancelled, sync_states, tables,
                    unit, rpcClient, RPCEndpoint, kills, hist >>

NextCatalog == DecodeAt \/ Deliver

SpecCatalog == InitCatalog /\ [][NextCatalog]_vars

(***************************************************************************)
(* The decoder and the package variables it reads.  ParseLog compares the  *)
(* address it is given with config.WhizyPredictionMarketContract.Address   *)
(* and config.ProtocolSelectorContract.Address, which are zero until       *)
(* LoadNetworks has run and are assigned by every run of it.               *)
(***************************************************************************)
\* The contract lists of the networks of networks.json: those of Configs,
\* both contracts, a network on which the prediction market is deployed at
\* another address, and a network without contracts.
Networks ==
    Configs \cup { BothContracts }
    \cup { { [Name |-> "WhizyPredictionMarket", Address |-> OtherAddress,
              StartBlock |-> 0] } }
    \cup { {} }

\* No process: the package variables of config are at their zero values and
\* ParseLog is about to be called on a log.
InitUnloaded ==
    /\ Contracts = {}
    /\ LoadedOnce
    /\ BlockBatchSize = 1
    /\ RPCEndpoint = "http"
    /\ proc = "down"
    /\ cancelled = FALSE
    /\ rpcClient = "none"
    /\ kills = 0
    /\ sync_states = {}
    /\ tables = [k \in Kinds |-> {}]
    /\ unit = [n \in Names |-> NoUnit]
    /\ hist = [n \in Names |-> NoHist]
    /\ plog \in ShortShaped
    /\ paddr \in { WhizyAddress, Lower(WhizyAddress), ProtocolSelectorAddress }
    /\ pres = NotParsed

\* The package variable of a name after LoadNetworks read the list cs: the
\* listed contract, or the value it had when the list does not have the name.
Assigned(name, cs, old) ==
    IF \E c \in cs : c.Name = name THEN CHOOSE c \in cs : c.Name = name ELSE old

\* LoadNetworks(networksFile, network): Contracts is replaced by the
\* network's list and the package variable of every listed name is
\* assigned; for an empty list it then returns an error.
LoadNetworks ==
    /\ \E cs \in Networks :
         /\ Contracts' = cs
         /\ WhizyPredictionMarketContract' =
              Assigned("WhizyPredictionMarket", cs, WhizyPredictionMarketContract)
         /\ ProtocolSelectorContract' =
              Assigned("ProtocolSelector", cs, ProtocolSelectorContract)
    /\ unit' = [n \in Names' |-> NoUnit]
    /\ hist' = [n \in Names' |-> NoHist]
    /\ UNCHANGED << BlockBatchSize, proc, cancelled, sync_states, tables,
                    rpcClient, RPCEndpoint, kills, plog, paddr, pres >>

\* ParseLog is called once more with the same log and address.
DecodeAgain ==
    /\ pres # NotParsed
    /\ \E t \in TimesOf(plog.BlockNumber) : pres' = ParseLog(plog, paddr, t)
    /\ UNCHANGED << Contracts, named, BlockBatchSize, proc, cancelled, sync_states, tables,
                    unit, rpcClient, RPCEndpoint, kills, hist, plog, paddr >>

NextLoaded == DecodeAt \/ DecodeAgain \/ LoadNetworks

SpecLoaded == InitUnloaded /\ [][NextLoaded]_vars

(***************************************************************************)
(* Properties of the decoder.                                              *)
(***************************************************************************)
RECURSIVE BigNat(_)
\* The integer of a short magnitude.
BigNat(bs) == IF bs = << >> THEN 0 ELSE BigNat(SubSeq(bs, 1, Len(bs) - 1)) * 256 + bs[Len(bs)]

\* Whether offset+32 or offset+32+length exceeds len(data), for the offset
\* in the first word of data and the length in the word at that offset,
\* both taken as the 256-bit integers they are.
ReadsPast(data) ==
    LET off == SetBytes(Word(data, 0))
    IN  IF Len(off) > 2 THEN TRUE
        ELSE IF BigNat(off) + 32 > Len(data) THEN TRUE
        ELSE LET len == SetBytes(Slice(data, BigNat(off), BigNat(off) + 32))
             IN  IF Len(len) > 2 THEN TRUE
                 ELSE BigNat(off) + 32 + BigNat(len) > Len(data)

\* The string field of a decoded MarketCreated or ProtocolRegistered.
StringOf(e) == IF e.Kind = "MarketCreated" THEN e.Question ELSE e.Name

\* C6 (bounds safety of dynamic strings): for every log of the two shapes,
\* whatever its offset and length words, ParseLog returns an entity (no
\* error, no panic), and the string is empty whenever offset+32 or
\* offset+32+length exceeds len(data).
C6_BoundsSafety ==
    pres # NotParsed
    => /\ pres.status = "ok"
       /\ ReadsPast(plog.Data) => StringOf(pres.entity) = << >>

\* The role whose catalog holds the signature, the name of its event and the
\* number of topics its indexed fields need.
EventOf(sig) ==
    CASE sig = BetPlacedSignature -> [role |-> "pm", name |-> "BetPlaced", topics |-> 3]
      [] sig = MarketCreatedSignature ->
           [role |-> "pm", name |-> "MarketCreated", topics |-> 2]
      [] sig = MarketResolvedSignature ->
           [role |-> "pm", name |-> "MarketResolved", topics |-> 2]
      [] sig = WinningsClaimedSignature ->
           [role |-> "pm", name |-> "WinningsClaimed", topics |-> 3]
      [] sig = AutoDepositExecutedSignature ->
           [role |-> "ps", name |-> "AutoDepositExecuted", topics |-> 3]
      [] sig = AutoWithdrawExecutedSignature ->
           [role |-> "ps", name |-> "AutoWithdrawExecuted", topics |-> 3]
      [] sig = OwnershipTransferredSignature ->
           [role |-> "ps", name |-> "OwnershipTransferred", topics |-> 3]
      [] sig = PausedSignature -> [role |-> "ps", name |-> "Paused", topics |-> 1]
      [] sig = ProtocolRegisteredSignature ->
           [role |-> "ps", name |-> "ProtocolRegistered", topics |-> 3]
      [] sig = ProtocolUpdatedSignature ->
           [role |-> "ps", name |-> "ProtocolUpdated", topics |-> 2]
      [] sig = UnpausedSignature -> [role |-> "ps", name |-> "Unpaused", topics |-> 1]
      [] OTHER -> [role |-> "none", name |-> "", topics |-> 0]

\* The role of the address a log is decoded under: that of the prediction
\* market, of the protocol selector, or none.
RoleOf(address) ==
    IF Lower(address) = Lower(WhizyAddress) THEN "pm"
    ELSE IF Lower(address) = Lower(ProtocolSelectorAddress) THEN "ps"
    ELSE "other"

\* ParseLog has been applied to plog under paddr.
Parsed == pres # NotParsed

\* C15 (insufficient topics): a log without topics is rejected with the
\* error "log has no topics"; a log whose topic0 is an event of the role of
\* its address and which has fewer topics than the event's indexed fields
\* need is rejected with the error "insufficient topics for <event>"; in
\* both cases there is no entity and no panic.
C15_InsufficientTopics ==
    Parsed =>
      /\ Len(plog.Topics) = 0 => pres = Err("log has no topics")
      /\ /\ Len(plog.Topics) > 0
         /\ EventOf(plog.Topics[1]).role = RoleOf(paddr)
         /\ Len(plog.Topics) < EventOf(plog.Topics[1]).topics
         => pres = Err("insufficient topics for " \o EventOf(plog.Topics[1]).name)

\* A BetPlaced log with two topics was rejected, under the lower-case
\* address of the prediction market.
C15_Witness ==
    /\ Parsed
    /\ paddr = Lower(WhizyAddress)
    /\ Len(plog.Topics) = 2
    /\ plog.Topics[1] = BetPlacedSignature
    /\ pres = Err("insufficient topics for BetPlaced")

\* The magnitude x is the big-endian unsigned integer that the bytes bs
\* spell: x has no leading zero byte and is bs without its leading zeros.
IsValueOf(x, bs) ==
    /\ Len(x) <= Len(bs)
    /\ x = << >> \/ x[1] # 0
    /\ Zeros(Len(bs) - Len(x)) \o x = bs

\* A BetPlaced log of the prediction market with all its topics and data.
FullBetPlaced ==
    /\ Parsed
    /\ RoleOf(paddr) = "pm"
    /\ Len(plog.Topics) >= 3
    /\ plog.Topics[1] = BetPlacedSignature
    /\ Len(plog.Data) >= 96

\* C16 (decode correctness for BetPlaced): for a log with at least 3 topics
\* and at least 96 data bytes the entity has marketId = topic1 as a
\* big-endian unsigned integer, user = the low 20 bytes of topic2,
\* position = (data word 0 is not zero), amount = data word 1, shares = data
\* word 2, id = {transactionHash}-{logIndex}, and the block number, the
\* timestamp and the transaction hash passed in; topic1 = 7 with data
\* [1, 100, 50] gives marketId 7, position true, amount 100, shares 50.
C16_BetPlacedDecoded ==
    FullBetPlaced =>
      LET e == pres.entity
      IN  /\ pres.status = "ok"
          /\ e.Kind = "BetPlaced"
          /\ IsValueOf(e.MarketID, plog.Topics[2])
          /\ e.User = Checksum("0x" \o HexOf(SubSeq(plog.Topics[3], 13, 32)))
          /\ e.Position = (SubSeq(plog.Data, 1, 32) # Zeros(32))
          /\ IsValueOf(e.Amount, SubSeq(plog.Data, 33, 64))
          /\ IsValueOf(e.Shares, SubSeq(plog.Data, 65, 96))
          /\ e.ID = HashHex(plog.TxHash) \o "-" \o Itoa(plog.Index)
          /\ BigNat(e.BlockNumber) = plog.BlockNumber
          /\ \E t \in TimesOf(plog.BlockNumber) : e.BlockTimestamp = NatBytes(t)
          /\ e.TransactionHash = HashHex(plog.TxHash)
          /\ /\ plog.Topics[2] = WordOfNat(7)
             /\ plog.Data = WordOfNat(1) \o WordOfNat(100) \o WordOfNat(50)
             => /\ BigNat(e.MarketID) = 7
                /\ e.Position
                /\ BigNat(e.Amount) = 100
                /\ BigNat(e.Shares) = 50

\* A BetPlaced log whose market id is above 2^64, whose user topic has
\* non-zero high bytes, whose position word is non-zero only above bit 64
\* and whose amount is 2^256 - 1 has been decoded.
C16_Witness ==
    /\ FullBetPlaced
    /\ pres.status = "ok"
    /\ plog.Topics[2] = WordAbove64(5)
    /\ plog.Topics[3] = DirtyAddressWord(187)
    /\ pres.entity.User = "0xbBbBBBBbbBBBbbbBbbBbbbbBBbBbbbbBbBbbBBbB"
    /\ pres.entity.Position
    /\ SubSeq(plog.Data, 1, 32) = WordAbove64(0)
    /\ pres.entity.Amount = WordMax

\* C17 (two-level catalog lookup): ParseLog selects a decoder exactly when
\* the address matches a monitored role, whatever the letter case, and
\* topic0 is a signature of that role, and the decoder is that event's; a
\* topic0 of the other role, or any topic0 under an address of neither role,
\* yields the "unknown event signature" error and no entity.
C17_TwoLevelLookup ==
    Parsed /\ Len(plog.Topics) > 0 =>
      LET ev == EventOf(plog.Topics[1])
      IN  IF ev.role # "none" /\ ev.role = RoleOf(paddr)
          THEN \/ pres.status = "ok" /\ pres.entity.Kind = ev.name
               \/ pres = Err("insufficient topics for " \o ev.name)
          ELSE pres = Err("unknown event signature: " \o HashHex(plog.Topics[1])
                              \o " for contract " \o GoString(paddr))

\* A BetPlaced log with all its topics was decoded under the lower-case
\* address of the protocol selector and found in no catalog.
C17_Witness ==
    /\ Parsed
    /\ paddr = Lower(ProtocolSelectorAddress)
    /\ Len(plog.Topics) = 3
    /\ plog.Topics[1] = BetPlacedSignature
    /\ pres.status = "error"
    /\ pres.entity = NoEntity

\* The (transaction hash, log index) pairs of the logs explored.
IdentityPairs == { << Hash32(b), i >> : b \in { 1, 11 }, i \in { 0, 1, 11 } }

\* C19 (identifier uniqueness): the identifier of every entity, of whatever
\* kind, data and timestamp, is {transactionHash}-{logIndex} of its log, and
\* it is the identifier of another (transaction hash, log index) pair if and
\* only if that pair is the log's own.
C19_IdentifierUniqueness ==
    Parsed /\ pres.status = "ok" =>
      /\ pres.entity.ID = HashHex(plog.TxHash) \o "-" \o Itoa(plog.Index)
      /\ \A p \in IdentityPairs :
           pres.entity.ID = EntityID(HashHex(p[1]), p[2])
           <=> (p[1] = plog.TxHash /\ p[2] = plog.Index)

\* A Paused log at index 11 of transaction 0x..0b was decoded with the wall
\* clock as its timestamp, and its identifier is that of the log.
C19_Witness ==
    /\ Parsed
    /\ pres.status = "ok"
    /\ pres.entity.Kind = "Paused"
    /\ plog.TxHash = Hash32(11)
    /\ plog.Index = 11
    /\ \E t \in WallClocks : pres.entity.BlockTimestamp = NatBytes(t)
    /\ pres.entity.ID = HashHex(Hash32(11)) \o "-11"

\* The least number of data bytes the decoder of an event reads its data
\* fields from.
MinData(name) ==
    CASE name = "BetPlaced" -> 96
      [] name = "MarketCreated" -> 128
      [] name \in { "AutoDepositExecuted", "AutoWithdrawExecuted",
                    "ProtocolRegistered", "ProtocolUpdated" } -> 64
      [] name \in { "MarketResolved", "WinningsClaimed", "Paused", "Unpaused" } -> 32
      [] OTHER -> 0

\* The data-derived fields of an entity of the kind, at their zero values.
ZeroData(kind) ==
    CASE kind = "BetPlaced" -> [Position |-> FALSE, Amount |-> << >>, Shares |-> << >>]
      [] kind = "MarketCreated" ->
           [Question |-> << >>, EndTime |-> << >>, TokenAddress |-> "",
            VaultAddress |-> ""]
      [] kind = "MarketResolved" -> [Outcome |-> FALSE]
      [] kind = "WinningsClaimed" -> [WinningAmount |-> << >>]
      [] kind \in { "AutoDepositExecuted", "AutoWithdrawExecuted" } ->
           [Amount |-> << >>, Success |-> FALSE]
      [] kind \in { "Paused", "Unpaused" } -> [Account |-> ""]
      [] kind = "ProtocolRegistered" -> [Name |-> << >>, RiskLevel |-> U64(0)]
      [] kind = "ProtocolUpdated" -> [NewApy |-> << >>, NewTvl |-> << >>]

\* The address the low 20 bytes of a topic spell, as Address.Hex() prints it.
TopicAddress(topic) == Checksum("0x" \o HexOf(SubSeq(topic, 13, 32)))

\* The topic-derived fields of the entity are those of the log.
TopicsSet(e, log) ==
    /\ e.Kind \in { "BetPlaced", "MarketCreated", "MarketResolved", "WinningsClaimed" }
       => IsValueOf(e.MarketID, log.Topics[2])
    /\ e.Kind \in { "BetPlaced", "WinningsClaimed" } => e.User = TopicAddress(log.Topics[3])
    /\ e.Kind \in { "AutoDepositExecuted", "AutoWithdrawExecuted" }
       => e.User = TopicAddress(log.Topics[2]) /\ e.Protocol = TopicAddress(log.Topics[3])
    /\ e.Kind = "ProtocolRegistered"
       => /\ e.ProtocolType = Uint64(SetBytes(log.Topics[2]))
          /\ e.ProtocolAddress = TopicAddress(log.Topics[3])
    /\ e.Kind = "ProtocolUpdated" => e.ProtocolAddress = TopicAddress(log.Topics[2])

\* A log of an event of the role of its address, with enough topics and
\* with less data than the event's minimum.
ShortData ==
    /\ Parsed
    /\ Len(plog.Topics) > 0
    /\ EventOf(plog.Topics[1]).role = RoleOf(paddr)
    /\ Len(plog.Topics) >= EventOf(plog.Topics[1]).topics
    /\ Len(plog.Data) < MinData(EventOf(plog.Topics[1]).name)

\* C24 (short data degrades to zero values): with enough topics and data
\* shorter than the event's minimum, the decoder returns an entity without
\* error in which every data-derived field has its zero value, also when
\* the field's own word is within the data, and in which the topic-derived
\* fields and the id are set.
C24_ShortDataZero ==
    ShortData =>
      LET e == pres.entity
      IN  /\ pres.status = "ok"
          /\ e.Kind = EventOf(plog.Topics[1]).name
          /\ \A f \in DOMAIN ZeroData(e.Kind) : e[f] = ZeroData(e.Kind)[f]
          /\ TopicsSet(e, plog)
          /\ e.ID = HashHex(plog.TxHash) \o "-" \o Itoa(plog.Index)

\* A MarketCreated log with 127 bytes of data, whose end time and token
\* address words are complete, was decoded to an entity with the market id
\* of its topic.
C24_Witness ==
    /\ ShortData
    /\ plog.Topics[1] = MarketCreatedSignature
    /\ Len(plog.Data) = 127
    /\ pres.status = "ok"
    /\ pres.entity.MarketID = << 7 >>
    /\ pres.entity.EndTime = << >>

\* C26 (decode determinism): two calls of ParseLog with the same log, the
\* same contract address and the same block timestamp return the same
\* entity or the same failure, whatever else happened in between.
C26_DecodeDeterminism ==
    [][(/\ Parsed /\ Parsed'
        /\ plog' = plog /\ paddr' = paddr
        /\ (pres.status = "ok" /\ pres'.status = "ok"
              => pres'.entity.BlockTimestamp = pres.entity.BlockTimestamp))
       => pres' = pres]_vars

====
